---- MODULE Spec2Model ----
(***************************************************************************)
(* Device benchmarking and plan recommendation of the on-boarding flow     *)
(* (lib/geekbenchAI.ts and lib/deviceDetection.ts, kept in one source      *)
(* file, src/unnamed/part_001), and the registration of a user             *)
(* (handleRegistration of components/OnboardingFlow.tsx).                  *)
(*                                                                         *)
(* Numbers.  The scores of the program are JavaScript numbers.  Every      *)
(* score is produced by Math.round, so it is a non-negative integer or     *)
(* +Infinity (a measured duration of 0 ms divides by zero).  The products  *)
(* with 0.5, 0.3, 0.2, 0.7, 0.75 and 0.8 are modelled exactly, as          *)
(* fractions, and not with the rounding error of IEEE doubles.             *)
(***************************************************************************)
EXTENDS Integers, Sequences, FiniteSets, TLC

VARIABLES
    cls,          \* the classifications made by classifyAIDevice
    nav,          \* the platform detectDeviceCapabilities last ran on
    det,          \* what that call of detectDeviceCapabilities gave its caller
    pc,           \* where the call of runAIBenchmark stands
    benv,         \* the platform runAIBenchmark runs on
    run,          \* the local variables of runAIBenchmark
    workers,      \* the workers testMultiCore created, in creation order
    blobURL,      \* the object URL of the worker script
    result,       \* the BenchmarkResult runAIBenchmark resolved with
    probes,       \* the probes of the run that have completed, in that order
    fmt,          \* the call of formatScore: its argument and the string returned
    rec,          \* the calls of getRecommendation: argument and value returned
    localStorage, \* window.localStorage: key -> value
    requests,     \* the HTTP requests saveBenchmarkResult has issued
    save,         \* the call of saveBenchmarkResult: how it was called and ended
    users,        \* the rows of the users table, in the order of their insertion
    codes,        \* the rows of the verification_codes table
    subscriptions, \* the rows of the user_subscriptions table
    outbox,       \* the e-mails send-verification-email was asked to send
    now,          \* the clock, in minutes
    reg,          \* the wizard of each browser: React state and running handler
    sso,          \* the sign-in step: its state, and the call of handleCallback
    sessionStorage, \* window.sessionStorage: key -> value
    authorize,    \* the query of the navigation to the authorize endpoint
    authRequests, \* the requests handleAuthentikCallback has issued
    rewards       \* the rows of the referral_rewards table, in the order of insertion

clsVars == <<cls>>
detVars == <<nav, det>>
benchVars == <<pc, benv, run, workers, blobURL, result, probes>>
fmtVars == <<fmt>>
recVars == <<rec>>
saveVars == <<localStorage, requests, save>>
regVars == <<users, codes, subscriptions, outbox, now, reg>>
ssoVars == <<sso, sessionStorage, authorize, authRequests>>
refVars == <<rewards>>

\* what the operations of one part of the program leave alone
notCls == <<detVars, benchVars, fmtVars, saveVars, recVars, regVars, ssoVars, refVars>>
notDet == <<clsVars, benchVars, fmtVars, saveVars, recVars, regVars, ssoVars, refVars>>
notBench == <<clsVars, detVars, fmtVars, saveVars, recVars, regVars, ssoVars, refVars>>
notFmt == <<clsVars, detVars, benchVars, saveVars, recVars, regVars, ssoVars, refVars>>
notSave == <<clsVars, detVars, benchVars, fmtVars, recVars, regVars, ssoVars, refVars>>
notRec == <<clsVars, detVars, benchVars, fmtVars, saveVars, regVars, ssoVars, refVars>>
notReg == <<clsVars, detVars, benchVars, fmtVars, recVars, saveVars, ssoVars>>
notSSO == <<clsVars, detVars, benchVars, fmtVars, recVars, requests, save, regVars, refVars>>
notRef == <<clsVars, detVars, benchVars, fmtVars, recVars, saveVars, codes,
           subscriptions, outbox, now, reg, ssoVars>>
vars == <<cls, nav, det, pc, benv, run, workers, blobURL, result, probes, fmt,
          rec, localStorage, requests, save, users, codes, subscriptions, outbox,
          now, reg,
          sso, sessionStorage, authorize, authRequests,
          rewards>>

----------------------------------------------------------------------------
(* JavaScript numbers *)

\* +Infinity, encoded below the finite scores, which are all >= 0
Infinity == -1

\* undefined (an absent platform signal), encoded below the finite numbers
Undefined == -2

IsFinite(x) == x >= 0

\* x > n and x >= n for a score x and a finite threshold n
Gt(x, n) == x = Infinity \/ x > n
Ge(x, n) == x = Infinity \/ x >= n

\* Math.round(n / d) for n >= 0, d > 0: the nearest integer, halves upwards
MathRound(n, d) == (2 * n + d) \div (2 * d)

\* Math.round(c / duration) with the division by zero of a 0 ms duration
ScoreOf(c, duration) == IF duration = 0 THEN Infinity ELSE MathRound(c, duration)

\* Math.round(x * n / d) for a score x that may be +Infinity (n, d > 0)
RoundScaled(x, n, d) == IF x = Infinity THEN Infinity ELSE MathRound(x * n, d)

----------------------------------------------------------------------------
(* JavaScript strings: sequences of one-character strings *)

\* the value undefined where a string is expected (navigator.userAgent and
\* navigator.platform of a platform that does not provide them)
NoString == <<"undefined">>

LowerOf(c) ==
    CASE c = "A" -> "a" [] c = "B" -> "b" [] c = "C" -> "c" [] c = "D" -> "d"
      [] c = "E" -> "e" [] c = "F" -> "f" [] c = "G" -> "g" [] c = "H" -> "h"
      [] c = "I" -> "i" [] c = "J" -> "j" [] c = "K" -> "k" [] c = "L" -> "l"
      [] c = "M" -> "m" [] c = "N" -> "n" [] c = "O" -> "o" [] c = "P" -> "p"
      [] c = "Q" -> "q" [] c = "R" -> "r" [] c = "S" -> "s" [] c = "T" -> "t"
      [] c = "U" -> "u" [] c = "V" -> "v" [] c = "W" -> "w" [] c = "X" -> "x"
      [] c = "Y" -> "y" [] c = "Z" -> "z" [] OTHER -> c

\* String.prototype.toLowerCase
toLowerCase(s) == [i \in 1..Len(s) |-> LowerOf(s[i])]

\* sub occurs in s at position i
OccursAt(s, sub, i) ==
    /\ i >= 1
    /\ i + Len(sub) - 1 <= Len(s)
    /\ SubSeq(s, i, i + Len(sub) - 1) = sub

\* String.prototype.includes; on a regular expression without operators,
\* RegExp.prototype.test
includes(s, sub) == \E i \in 1..Len(s) : OccursAt(s, sub, i)

\* /a|b|.../i.test(s): some alternative occurs in s, whatever the case
TestAnyOf(s, alternatives) ==
    \E a \in alternatives : includes(toLowerCase(s), a)

\* the string a regular expression tests when it is handed undefined
RegExpSubject(s) == IF s = NoString THEN <<"u", "n", "d", "e", "f", "i", "n", "e", "d">> ELSE s

----------------------------------------------------------------------------
(* Bounds *)

\* the classifier is tried on the scores 0, 1000, ..., 1000 * MaxScoreK
MaxScoreK == 6

ScoreInputs == {k * 1000 : k \in 0..MaxScoreK} \cup {Infinity}

----------------------------------------------------------------------------
(* classifyAIDevice *)

DeviceClasses == {"flagship", "high-end", "mid-range", "entry-level"}

\* ten times int8Score*0.5 + fp16Score*0.3 + fp32Score*0.2
Weighted10(int8Score, fp16Score, fp32Score) ==
    IF Infinity \in {int8Score, fp16Score, fp32Score}
    THEN Infinity
    ELSE 5 * int8Score + 3 * fp16Score + 2 * fp32Score

\* a plausible slip: the floor of the top class tested on the wrong score
classifyAIDevice_wrongFloor(int8Score, fp16Score, fp32Score) ==
    LET weightedScore10 == Weighted10(int8Score, fp16Score, fp32Score)
    IN  IF Gt(weightedScore10, 40000) /\ Gt(fp16Score, 5000) THEN "flagship"
        ELSE IF Gt(weightedScore10, 25000) /\ Gt(int8Score, 3000) THEN "high-end"
        ELSE IF Gt(weightedScore10, 15000) THEN "mid-range"
        ELSE "entry-level"

\* a plausible slip: inclusive thresholds
classifyAIDevice_inclusive(int8Score, fp16Score, fp32Score) ==
    LET weightedScore10 == Weighted10(int8Score, fp16Score, fp32Score)
    IN  IF Ge(weightedScore10, 40000) /\ Ge(int8Score, 5000) THEN "flagship"
        ELSE IF Ge(weightedScore10, 25000) /\ Ge(int8Score, 3000) THEN "high-end"
        ELSE IF Ge(weightedScore10, 15000) THEN "mid-range"
        ELSE "entry-level"

classifyAIDevice(int8Score, fp16Score, fp32Score) ==
    LET weightedScore10 == Weighted10(int8Score, fp16Score, fp32Score)
    IN  IF Gt(weightedScore10, 40000) /\ Gt(int8Score, 5000) THEN "flagship"
        ELSE IF Gt(weightedScore10, 25000) /\ Gt(int8Score, 3000) THEN "high-end"
        ELSE IF Gt(weightedScore10, 15000) THEN "mid-range"
        ELSE "entry-level"

ClsInit == cls = <<>>

\* one call of classifyAIDevice; the claims compare two calls, so two are kept
ClassifyAIDevice ==
    /\ Len(cls) < 2
    /\ \E int8Score \in ScoreInputs, fp16Score \in ScoreInputs, fp32Score \in ScoreInputs :
        LET r == [int8Score   |-> int8Score,
                  fp16Score   |-> fp16Score,
                  fp32Score   |-> fp32Score,
                  deviceClass |-> classifyAIDevice(int8Score, fp16Score, fp32Score)]
        IN  cls' = Append(cls, r)
    /\ UNCHANGED notCls

----------------------------------------------------------------------------
(* The platform: navigator, document and their failures *)

\* x || d on numbers: undefined and 0 are falsy
OrElse(x, d) == IF x = Undefined \/ x = 0 THEN d ELSE x

\* the outcome of a function that threw instead of returning a number
Thrown == -3

\* storage sizes are kept in MiB, so a number of GB is kept in units of
\* 1/1024 GB: bytes / (1024 * 1024 * 1024) = MiB / 1024
GBUnit == 1024

\* the platform may report 2, 4, ..., 2 * MaxCorePairs logical cores and
\* 2, 4, ..., 2 * MaxMemoryPairs GB of device memory
MaxCorePairs == 4
MaxMemoryPairs == 4

HardwareConcurrencies == {Undefined} \cup {2 * k : k \in 1..MaxCorePairs}
DeviceMemories == {Undefined} \cup {2 * k : k \in 1..MaxMemoryPairs}

Platforms == {<<"W", "i", "n", "3", "2">>, <<"L", "i", "n", "u", "x", " ", "a", "r", "m", "v", "8", "l">>, <<"i", "P", "h", "o", "n", "e">>, NoString}

UserAgents ==
    {<<"M", "o", "z", "i", "l", "l", "a", "/", "5", ".", "0", " ", "(", "W", "i", "n", "d", "o", "w", "s", " ", "N", "T", " ", "1", "0", ".", "0", ";", " ", "W", "i", "n", "6", "4", ")", " ", "A", "p", "p", "l", "e", "W", "e", "b", "K", "i", "t", " ", "I", "n", "t", "e", "l">>,
     <<"M", "o", "z", "i", "l", "l", "a", "/", "5", ".", "0", " ", "(", "i", "P", "a", "d", ";", " ", "C", "P", "U", " ", "O", "S", " ", "1", "7", " ", "l", "i", "k", "e", " ", "M", "a", "c", " ", "O", "S", " ", "X", ")", " ", "A", "p", "p", "l", "e", "W", "e", "b", "K", "i", "t", " ", "M", "o", "b", "i", "l", "e">>,
     <<"M", "o", "z", "i", "l", "l", "a", "/", "5", ".", "0", " ", "(", "L", "i", "n", "u", "x", ";", " ", "A", "n", "d", "r", "o", "i", "d", " ", "1", "3", ";", " ", "S", "n", "a", "p", "d", "r", "a", "g", "o", "n", ")", " ", "M", "o", "b", "i", "l", "e", " ", "S", "a", "f", "a", "r", "i">>,
     <<"M", "o", "z", "i", "l", "l", "a", "/", "5", ".", "0", " ", "(", "L", "i", "n", "u", "x", ";", " ", "A", "n", "d", "r", "o", "i", "d", " ", "1", "3", ";", " ", "E", "x", "y", "n", "o", "s", ")", " ", "S", "a", "f", "a", "r", "i">>,
     <<"M", "o", "z", "i", "l", "l", "a", "/", "5", ".", "0", " ", "(", "i", "P", "h", "o", "n", "e", ";", " ", "C", "P", "U", " ", "i", "P", "h", "o", "n", "e", " ", "O", "S", " ", "1", "7", " ", "l", "i", "k", "e", " ", "M", "a", "c", " ", "O", "S", " ", "X", ")", " ", "M", "o", "b", "i", "l", "e">>,
     <<"M", "o", "z", "i", "l", "l", "a", "/", "5", ".", "0", " ", "(", "X", "1", "1", ";", " ", "C", "r", "O", "S", ")", " ", "M", "e", "d", "i", "a", "T", "e", "k">>,
     NoString}

\* document.createElement('canvas').getContext(...): it throws, it gives no
\* context, or it gives a context whose WEBGL_debug_renderer_info extension is
\* missing (renderer = NoString) or names the renderer
Canvases ==
    {[ctx |-> "throws", renderer |-> NoString],
     [ctx |-> "none",   renderer |-> NoString],
     [ctx |-> "webgl",  renderer |-> NoString],
     [ctx |-> "webgl",  renderer |-> <<"G", "o", "o", "g", "l", "e", " ", "S", "w", "i", "f", "t", "S", "h", "a", "d", "e", "r">>],
     [ctx |-> "webgl",  renderer |-> <<"A", "N", "G", "L", "E", " ", "(", "N", "V", "I", "D", "I", "A", ")">>]}

\* navigator.storage.estimate(): the API is absent, the query rejects, or it
\* answers with quota and usage (MiB; either may be undefined)
StorageEstimates ==
    {[api |-> "absent",  quota |-> Undefined, usage |-> Undefined],
     [api |-> "rejects", quota |-> Undefined, usage |-> Undefined],
     [api |-> "answers", quota |-> Undefined, usage |-> Undefined],
     [api |-> "answers", quota |-> 256 * GBUnit, usage |-> Undefined],
     [api |-> "answers", quota |-> 256 * GBUnit, usage |-> 0],
     [api |-> "answers", quota |-> 64 * GBUnit, usage |-> 1],
     [api |-> "answers", quota |-> 65 * GBUnit, usage |-> GBUnit],
     [api |-> "answers", quota |-> 32 * GBUnit, usage |-> 48 * GBUnit]}

Navigators ==
    [hardwareConcurrency : HardwareConcurrencies,
     deviceMemory        : DeviceMemories,
     platform            : Platforms,
     userAgent           : UserAgents,
     canvas              : Canvases,
     storage             : StorageEstimates]

----------------------------------------------------------------------------
(* detectDeviceCapabilities *)

\* a plausible slip: the mobile pattern is tried before the tablet pattern
getDeviceType_mobileFirst(navigator) ==
    IF navigator.userAgent = NoString THEN "throws"
    ELSE LET ua == toLowerCase(navigator.userAgent)
             androidNotMobi ==
                 \E i \in 1..Len(ua) :
                     /\ OccursAt(ua, <<"a", "n", "d", "r", "o", "i", "d">>, i)
                     /\ ~includes(SubSeq(ua, i + 7, Len(ua)), <<"m", "o", "b", "i">>)
         IN  IF TestAnyOf(ua, {<<"m", "o", "b", "i", "l", "e">>, <<"i", "p", "h", "o", "n", "e">>, <<"i", "p", "o", "d">>, <<"b", "l", "a", "c", "k", "b", "e", "r", "r", "y">>,
                                <<"o", "p", "e", "r", "a", " ", "m", "i", "n", "i">>, <<"i", "e", "m", "o", "b", "i", "l", "e">>, <<"w", "p", "d", "e", "s", "k", "t", "o", "p">>})
             THEN "mobile"
             ELSE IF \/ TestAnyOf(ua, {<<"t", "a", "b", "l", "e", "t">>, <<"i", "p", "a", "d">>, <<"p", "l", "a", "y", "b", "o", "o", "k">>, <<"s", "i", "l", "k">>})
                     \/ androidNotMobi
             THEN "tablet"
             ELSE "desktop"

\* "throws" when navigator.userAgent is undefined: toLowerCase of undefined
getDeviceType(navigator) ==
    IF navigator.userAgent = NoString THEN "throws"
    ELSE LET ua == toLowerCase(navigator.userAgent)
             androidNotMobi ==
                 \E i \in 1..Len(ua) :
                     /\ OccursAt(ua, <<"a", "n", "d", "r", "o", "i", "d">>, i)
                     /\ ~includes(SubSeq(ua, i + 7, Len(ua)), <<"m", "o", "b", "i">>)
         IN  IF \/ TestAnyOf(ua, {<<"t", "a", "b", "l", "e", "t">>, <<"i", "p", "a", "d">>, <<"p", "l", "a", "y", "b", "o", "o", "k">>, <<"s", "i", "l", "k">>})
                \/ androidNotMobi
             THEN "tablet"
             ELSE IF TestAnyOf(ua, {<<"m", "o", "b", "i", "l", "e">>, <<"i", "p", "h", "o", "n", "e">>, <<"i", "p", "o", "d">>, <<"b", "l", "a", "c", "k", "b", "e", "r", "r", "y">>,
                                    <<"o", "p", "e", "r", "a", " ", "m", "i", "n", "i">>, <<"i", "e", "m", "o", "b", "i", "l", "e">>, <<"w", "p", "d", "e", "s", "k", "t", "o", "p">>})
             THEN "mobile"
             ELSE "desktop"

getOS(navigator) ==
    LET ua == RegExpSubject(navigator.userAgent)
    IN  IF TestAnyOf(ua, {<<"w", "i", "n", "d", "o", "w", "s">>}) THEN "Windows"
        ELSE IF TestAnyOf(ua, {<<"m", "a", "c", "i", "n", "t", "o", "s", "h">>, <<"m", "a", "c", " ", "o", "s", " ", "x">>}) THEN "macOS"
        ELSE IF TestAnyOf(ua, {<<"l", "i", "n", "u", "x">>}) THEN "Linux"
        ELSE IF TestAnyOf(ua, {<<"a", "n", "d", "r", "o", "i", "d">>}) THEN "Android"
        ELSE IF TestAnyOf(ua, {<<"i", "p", "h", "o", "n", "e">>, <<"i", "p", "a", "d">>, <<"i", "p", "o", "d">>}) THEN "iOS"
        ELSE "Unknown"

\* Thrown when navigator.platform is undefined: toLowerCase of undefined
estimateRAM(navigator) ==
    LET cpuCores == OrElse(navigator.hardwareConcurrency, 2)
    IN  IF navigator.platform = NoString THEN Thrown
        ELSE LET platform == toLowerCase(navigator.platform)
             IN  IF \/ includes(platform, <<"w", "i", "n">>)
                    \/ includes(platform, <<"m", "a", "c">>)
                    \/ includes(platform, <<"l", "i", "n", "u", "x">>)
                 THEN (IF cpuCores >= 8 THEN 16 ELSE IF cpuCores >= 4 THEN 8 ELSE 4)
                 ELSE IF cpuCores >= 8 THEN 8
                 ELSE IF cpuCores >= 6 THEN 6
                 ELSE IF cpuCores >= 4 THEN 4
                 ELSE 2

checkGPUAvailability(navigator) ==
    LET canvas == navigator.canvas
    IN  IF canvas.ctx = "throws" THEN FALSE
        ELSE IF canvas.ctx = "none" THEN FALSE
        ELSE IF canvas.renderer # NoString
             THEN ~includes(toLowerCase(canvas.renderer), <<"s", "w", "i", "f", "t", "s", "h", "a", "d", "e", "r">>)
             ELSE TRUE

\* a plausible slip: the difference is returned without Math.max
estimateStorage_unclamped(navigator) ==
    LET estimate == navigator.storage
    IN  IF estimate.api = "answers"
        THEN LET quotaGB == OrElse(estimate.quota, 0)
                 usageGB == OrElse(estimate.usage, 0)
             IN  quotaGB - usageGB
        ELSE 64 * GBUnit

\* the free storage in units of 1/1024 GB
estimateStorage(navigator) ==
    LET estimate == navigator.storage
    IN  IF estimate.api = "answers"
        THEN LET quotaGB == OrElse(estimate.quota, 0)
                 usageGB == OrElse(estimate.usage, 0)
             IN  IF quotaGB - usageGB > 0 THEN quotaGB - usageGB ELSE 0
        ELSE 64 * GBUnit

\* a plausible slip: the RAM floor of the compute plan taken for the flagship one
isFlagshipOf_ram4(cpuCores, deviceMemoryGB, storage, hasGPU) ==
    cpuCores >= 4 /\ deviceMemoryGB >= 4 /\ storage >= 64 * GBUnit /\ hasGPU

isFlagshipOf(cpuCores, deviceMemoryGB, storage, hasGPU) ==
    cpuCores >= 4 /\ deviceMemoryGB >= 6 /\ storage >= 64 * GBUnit /\ hasGPU

\* a plausible slip: || for && in the test of the compute plan
recommendedPlanOf_or(isFlagship, cpuCores, deviceMemoryGB) ==
    IF isFlagship THEN "free"
    ELSE IF cpuCores >= 4 \/ deviceMemoryGB >= 4 THEN "compute"
    ELSE "premium"

recommendedPlanOf(isFlagship, cpuCores, deviceMemoryGB) ==
    IF isFlagship THEN "free"
    ELSE IF cpuCores >= 4 /\ deviceMemoryGB >= 4 THEN "compute"
    ELSE "premium"

\* the outcome of a call that threw: no DeviceSpecs reaches the caller
Raised ==
    [status |-> "raised", type |-> "none", os |-> "none", cpuCores |-> Undefined,
     ramGB |-> Undefined, gpuAvailable |-> FALSE, storageGB |-> Undefined,
     isFlagship |-> FALSE, recommendedPlan |-> "none"]

detectDeviceCapabilities(navigator) ==
    LET cpuCores == OrElse(navigator.hardwareConcurrency, 2)
        deviceMemoryGB ==
            IF OrElse(navigator.deviceMemory, 0) # 0 THEN navigator.deviceMemory
            ELSE estimateRAM(navigator)
        hasGPU == checkGPUAvailability(navigator)
        storage == estimateStorage(navigator)
        deviceType == getDeviceType(navigator)
        os == getOS(navigator)
        isFlagship == isFlagshipOf(cpuCores, deviceMemoryGB, storage, hasGPU)
    IN  IF deviceMemoryGB = Thrown THEN Raised
        ELSE IF deviceType = "throws" THEN Raised
        ELSE [status          |-> "returned",
              type            |-> deviceType,
              os              |-> os,
              cpuCores        |-> cpuCores,
              ramGB           |-> deviceMemoryGB,
              gpuAvailable    |-> hasGPU,
              storageGB       |-> storage,
              isFlagship      |-> isFlagship,
              recommendedPlan |-> recommendedPlanOf(isFlagship, cpuCores, deviceMemoryGB)]

\* no call made yet
NoCall ==
    [status |-> "idle", type |-> "none", os |-> "none", cpuCores |-> Undefined,
     ramGB |-> Undefined, gpuAvailable |-> FALSE, storageGB |-> Undefined,
     isFlagship |-> FALSE, recommendedPlan |-> "none"]

DetInit ==
    /\ nav = [hardwareConcurrency |-> Undefined, deviceMemory |-> Undefined,
              platform |-> NoString, userAgent |-> NoString,
              canvas |-> [ctx |-> "none", renderer |-> NoString],
              storage |-> [api |-> "absent", quota |-> Undefined, usage |-> Undefined]]
    /\ det = NoCall

\* the call of detectDeviceCapabilities, on some platform; the function keeps
\* no state, so one call per platform shows all it does
DetectDeviceCapabilities ==
    /\ det.status = "idle"
    /\ \E navigator \in Navigators :
        /\ nav' = navigator
        /\ det' = detectDeviceCapabilities(navigator)
    /\ UNCHANGED notDet

----------------------------------------------------------------------------
(* runAIBenchmark: the platform *)

\* a probe measures 0, 700, ..., 700 * MaxTicks ms between its two timestamps
MaxTicks == 2

Durations == {700 * k : k \in 0..MaxTicks}

\* navigator.hardwareConcurrency is absent or 1..MaxBenchCores
MaxBenchCores == 3

\* the value null
Null == <<"null">>

\* user agent, canvas and WebNN (navigator.ml) of the platforms tried
BenchPlatforms ==
    {[userAgent |-> NoString,
      deviceMemory |-> Undefined,
      canvas |-> [ctx |-> "webgl", renderer |-> NoString],
      ml |-> FALSE],
     [userAgent |-> <<"M", "o", "z", "i", "l", "l", "a", "/", "5", ".", "0", " ", "(", "W", "i", "n", "d", "o", "w", "s", " ", "N", "T", " ", "1", "0", ".", "0", ";", " ", "W", "i", "n", "6", "4", ")", " ", "A", "p", "p", "l", "e", "W", "e", "b", "K", "i", "t", " ", "I", "n", "t", "e", "l">>,
      deviceMemory |-> Undefined,
      canvas |-> [ctx |-> "throws", renderer |-> NoString],
      ml |-> TRUE],
     [userAgent |-> <<"M", "o", "z", "i", "l", "l", "a", "/", "5", ".", "0", " ", "(", "L", "i", "n", "u", "x", ";", " ", "A", "n", "d", "r", "o", "i", "d", " ", "1", "3", ";", " ", "S", "n", "a", "p", "d", "r", "a", "g", "o", "n", ")", " ", "M", "o", "b", "i", "l", "e", " ", "S", "a", "f", "a", "r", "i">>,
      deviceMemory |-> 8,
      canvas |-> [ctx |-> "webgl", renderer |-> <<"A", "d", "r", "e", "n", "o">>],
      ml |-> FALSE]}

BenchNavigators ==
    {[hardwareConcurrency |-> hc,
      deviceMemory        |-> p.deviceMemory,
      userAgent           |-> p.userAgent,
      canvas              |-> p.canvas,
      ml                  |-> p.ml] :
        hc \in {Undefined} \cup (1..MaxBenchCores), p \in BenchPlatforms}

IsDigit(c) == c \in {"0", "1", "2", "3", "4", "5", "6", "7", "8", "9"}

\* /iPhone(\d+)|iPad(\d+)|Mac/ matches ua
MatchesAppleDevice(ua) ==
    \/ includes(ua, <<"M", "a", "c">>)
    \/ \E i \in 1..Len(ua) :
          /\ OccursAt(ua, <<"i", "P", "h", "o", "n", "e">>, i)
          /\ i + 6 <= Len(ua)
          /\ IsDigit(ua[i + 6])
    \/ \E i \in 1..Len(ua) :
          /\ OccursAt(ua, <<"i", "P", "a", "d">>, i)
          /\ i + 4 <= Len(ua)
          /\ IsDigit(ua[i + 4])

\* <<"throws">> when navigator.userAgent is undefined: includes of undefined
detectNPU(navigator) ==
    LET ua == navigator.userAgent
    IN  IF ua = NoString THEN <<"throws">>
        ELSE IF includes(ua, <<"A", "p", "p", "l", "e">>) /\ MatchesAppleDevice(ua)
             THEN <<"A", "p", "p", "l", "e", " ", "N", "e", "u", "r", "a", "l", " ", "E", "n", "g", "i", "n", "e">>
        ELSE IF includes(ua, <<"S", "n", "a", "p", "d", "r", "a", "g", "o", "n">>) THEN <<"Q", "u", "a", "l", "c", "o", "m", "m", " ", "H", "e", "x", "a", "g", "o", "n", " ", "N", "P", "U">>
        ELSE IF includes(ua, <<"E", "x", "y", "n", "o", "s">>) THEN <<"S", "a", "m", "s", "u", "n", "g", " ", "N", "P", "U">>
        ELSE IF includes(ua, <<"M", "e", "d", "i", "a", "T", "e", "k">>) THEN <<"M", "e", "d", "i", "a", "T", "e", "k", " ", "A", "P", "U">>
        ELSE IF navigator.ml THEN <<"W", "e", "b", "N", "N", " ", "M", "L", " ", "A", "c", "c", "e", "l", "e", "r", "a", "t", "o", "r">>
        ELSE Null

\* <<"throws">> when navigator.userAgent is undefined
getProcessorInfo(navigator) ==
    LET ua == navigator.userAgent
    IN  IF ua = NoString THEN <<"throws">>
        ELSE IF includes(ua, <<"I", "n", "t", "e", "l">>) THEN <<"I", "n", "t", "e", "l">>
        ELSE IF includes(ua, <<"A", "M", "D">>) THEN <<"A", "M", "D">>
        ELSE IF includes(ua, <<"A", "p", "p", "l", "e">>) THEN <<"A", "p", "p", "l", "e", " ", "S", "i", "l", "i", "c", "o", "n">>
        ELSE IF includes(ua, <<"S", "n", "a", "p", "d", "r", "a", "g", "o", "n">>) THEN <<"S", "n", "a", "p", "d", "r", "a", "g", "o", "n">>
        ELSE IF includes(ua, <<"E", "x", "y", "n", "o", "s">>) THEN <<"E", "x", "y", "n", "o", "s">>
        ELSE IF includes(ua, <<"M", "e", "d", "i", "a", "T", "e", "k">>) THEN <<"M", "e", "d", "i", "a", "T", "e", "k">>
        ELSE <<"U", "n", "k", "n", "o", "w", "n", " ", "C", "P", "U">>

getGPUInfo(navigator) ==
    LET canvas == navigator.canvas
    IN  IF canvas.ctx = "throws" THEN <<"U", "n", "k", "n", "o", "w", "n", " ", "G", "P", "U">>
        ELSE IF canvas.ctx = "none" THEN <<"N", "o", " ", "G", "P", "U">>
        ELSE IF canvas.renderer # NoString THEN canvas.renderer
        ELSE <<"W", "e", "b", "G", "L", " ", "G", "P", "U">>

----------------------------------------------------------------------------
(* runAIBenchmark: the probes *)

\* 50000 / (duration / 100), rounded
testINT8Quantization(duration) == ScoreOf(50000 * 100, duration)

\* what the FP16 probe meets: no WebGL context, a shader call that throws, or a
\* context with or without EXT_color_buffer_half_float
FP16Outcomes == {"no-webgl", "throws", "ext", "no-ext"}

\* a plausible slip: the two fallback factors exchanged
testFP16Quantization_swapped(outcome, duration) ==
    CASE outcome = "no-webgl" -> RoundScaled(testINT8Quantization(duration), 75, 100)
      [] outcome = "throws"   -> RoundScaled(testINT8Quantization(duration), 7, 10)
      [] outcome = "ext"      -> ScoreOf(40000 * 10, duration)
      [] outcome = "no-ext"   -> ScoreOf(30000 * 10, duration)

\* duration: of the shader probe, or of the INT8 probe a fallback runs instead
testFP16Quantization(outcome, duration) ==
    CASE outcome = "no-webgl" -> RoundScaled(testINT8Quantization(duration), 7, 10)
      [] outcome = "throws"   -> RoundScaled(testINT8Quantization(duration), 75, 100)
      [] outcome = "ext"      -> ScoreOf(40000 * 10, duration)
      [] outcome = "no-ext"   -> ScoreOf(30000 * 10, duration)

testFP32Quantization(duration) == ScoreOf(30000 * 100, duration)

testSingleCore(duration) == ScoreOf(10000 * 100, duration)

\* a plausible slip: Math.floor for Math.round
overallScoreOf_floor(int8Score, fp16Score, fp32Score) ==
    LET weighted10 == Weighted10(int8Score, fp16Score, fp32Score)
    IN  IF weighted10 = Infinity THEN Infinity ELSE weighted10 \div 10

\* Math.round(int8Score * 0.5 + fp16Score * 0.3 + fp32Score * 0.2)
overallScoreOf(int8Score, fp16Score, fp32Score) ==
    LET weighted10 == Weighted10(int8Score, fp16Score, fp32Score)
    IN  IF weighted10 = Infinity THEN Infinity ELSE MathRound(weighted10, 10)

\* the score of testMultiCore when every worker has answered
multiCoreScoreOf(cores, duration) == ScoreOf(cores * 10000 * 100, duration)

\* a plausible slip: the estimate is not scaled by the number of cores
multiCoreFallback_oneCore(singleCoreScore, cores) == RoundScaled(singleCoreScore, 8, 10)

\* the score of testMultiCore when creating the workers threw
multiCoreFallback(singleCoreScore, cores) == RoundScaled(singleCoreScore, cores * 8, 10)

\* a plausible slip: Promise.race for Promise.all
allPosted_race(ws) == \E i \in 1..Len(ws) : ws[i] = "posted"

\* Promise.all(promises) is fulfilled: every worker has posted its message
allPosted(ws) == \A i \in 1..Len(ws) : ws[i] = "posted"

\* the local variables of a run before it has measured anything; fallbackInt8
\* and fallbackSingleCore are the values of the probes awaited inside the
\* fallbacks of testFP16Quantization and of testMultiCore
NoRun ==
    [cores |-> 0, ramGB |-> 0, gpu |-> Null, npu |-> Null,
     int8Score |-> 0, fp16Score |-> 0, fp32Score |-> 0, overallScore |-> 0,
     singleCoreScore |-> 0, multiCoreScore |-> 0,
     fp16Path |-> "none", multiPath |-> "none",
     fallbackInt8 |-> Undefined, fallbackSingleCore |-> Undefined]

\* no BenchmarkResult (benchmarkDate, a timestamp, is left out of the result)
NoResult ==
    [int8Score |-> 0, fp16Score |-> 0, fp32Score |-> 0, overallScore |-> 0,
     singleCoreScore |-> 0, multiCoreScore |-> 0, aiScore |-> 0,
     deviceClass |-> "none",
     deviceInfo |-> [processor |-> Null, cores |-> 0, ramGB |-> 0,
                     gpu |-> Null, npu |-> Null]]

BenchInit ==
    /\ pc = "idle"
    /\ benv = [hardwareConcurrency |-> Undefined, deviceMemory |-> Undefined,
               userAgent |-> NoString,
               canvas |-> [ctx |-> "none", renderer |-> NoString], ml |-> FALSE]
    /\ run = NoRun
    /\ workers = <<>>
    /\ blobURL = "none"
    /\ result = NoResult
    /\ probes = <<>>

\* the call: device info is read; detectNPU throws without a user agent, which
\* rejects the promise runAIBenchmark returned
RunAIBenchmark ==
    /\ pc = "idle"
    /\ \E navigator \in BenchNavigators :
        /\ benv' = navigator
        /\ IF detectNPU(navigator) = <<"throws">>
           THEN /\ pc' = "rejected"
                /\ run' = [run EXCEPT !.cores = OrElse(navigator.hardwareConcurrency, 2),
                                      !.ramGB = OrElse(navigator.deviceMemory, 4),
                                      !.gpu = getGPUInfo(navigator)]
           ELSE /\ pc' = "int8"
                /\ run' = [run EXCEPT !.cores = OrElse(navigator.hardwareConcurrency, 2),
                                      !.ramGB = OrElse(navigator.deviceMemory, 4),
                                      !.gpu = getGPUInfo(navigator),
                                      !.npu = detectNPU(navigator)]
    /\ UNCHANGED <<workers, blobURL, result, probes>>
    /\ UNCHANGED notBench

TestINT8Quantization ==
    /\ pc = "int8"
    /\ \E duration \in Durations :
        run' = [run EXCEPT !.int8Score = testINT8Quantization(duration)]
    /\ probes' = Append(probes, "int8")
    /\ pc' = "fp16"
    /\ UNCHANGED <<benv, workers, blobURL, result>>
    /\ UNCHANGED notBench

TestFP16Quantization ==
    /\ pc = "fp16"
    /\ \E outcome \in FP16Outcomes, duration \in Durations :
        run' = [run EXCEPT !.fp16Score = testFP16Quantization(outcome, duration),
                           !.fp16Path = outcome,
                           !.fallbackInt8 =
                               IF outcome \in {"no-webgl", "throws"}
                               THEN testINT8Quantization(duration)
                               ELSE Undefined]
    /\ probes' = Append(probes, "fp16")
    /\ pc' = "fp32"
    /\ UNCHANGED <<benv, workers, blobURL, result>>
    /\ UNCHANGED notBench

\* a plausible slip: the FP16 probe is not awaited, the FP32 probe starts at once
TestFP32Quantization_unawaited ==
    /\ pc = "fp16"
    /\ \E duration \in Durations :
        LET fp32Score == testFP32Quantization(duration)
        IN  run' = [run EXCEPT !.fp32Score = fp32Score,
                               !.overallScore =
                                   overallScoreOf(run.int8Score, run.fp16Score, fp32Score)]
    /\ probes' = Append(probes, "fp32")
    /\ pc' = "single"
    /\ UNCHANGED <<benv, workers, blobURL, result>>
    /\ UNCHANGED notBench

\* the FP32 probe and the overall score computed from the three
TestFP32Quantization ==
    /\ pc = "fp32"
    /\ \E duration \in Durations :
        LET fp32Score == testFP32Quantization(duration)
        IN  run' = [run EXCEPT !.fp32Score = fp32Score,
                               !.overallScore =
                                   overallScoreOf(run.int8Score, run.fp16Score, fp32Score)]
    /\ probes' = Append(probes, "fp32")
    /\ pc' = "single"
    /\ UNCHANGED <<benv, workers, blobURL, result>>
    /\ UNCHANGED notBench

TestSingleCore ==
    /\ pc = "single"
    /\ \E duration \in Durations :
        run' = [run EXCEPT !.singleCoreScore = testSingleCore(duration)]
    /\ probes' = Append(probes, "single")
    /\ pc' = "multi"
    /\ UNCHANGED <<benv, workers, blobURL, result>>
    /\ UNCHANGED notBench

\* testMultiCore up to its await: the blob URL and the workers are created in
\* one synchronous block.  created = -1: creating the blob or its URL threw;
\* created < cores: new Worker threw after `created` workers were started.  A
\* throw is caught, and the score is estimated from a fresh single-core probe;
\* the catch block terminates no worker and revokes no URL.
SpawnWorkers ==
    /\ pc = "multi"
    /\ \E created \in (-1)..run.cores :
        IF created = run.cores
        THEN /\ workers' = [i \in 1..created |-> "running"]
             /\ blobURL' = "created"
             /\ pc' = "join"
             /\ run' = [run EXCEPT !.multiPath = "workers"]
             /\ probes' = probes
        ELSE /\ workers' = [i \in 1..(IF created < 0 THEN 0 ELSE created) |-> "running"]
             /\ blobURL' = IF created < 0 THEN "none" ELSE "created"
             /\ pc' = "finish"
             /\ \E duration \in Durations :
                   run' = [run EXCEPT
                             !.multiCoreScore =
                                 multiCoreFallback(testSingleCore(duration), run.cores),
                             !.multiPath = "fallback",
                             !.fallbackSingleCore = testSingleCore(duration)]
             /\ probes' = Append(probes, "multi")
    /\ UNCHANGED <<benv, result>>
    /\ UNCHANGED notBench

\* worker i finishes its loop and its message resolves the promise made for it
WorkerPosts(i) ==
    /\ i \in 1..Len(workers)
    /\ workers[i] = "running"
    /\ workers' = [workers EXCEPT ![i] = "posted"]
    /\ UNCHANGED <<pc, benv, run, blobURL, result, probes>>
    /\ UNCHANGED notBench

\* worker i dies at runtime (script blocked, out of memory, stopped by the
\* browser) and posts nothing; no onerror handler is installed
WorkerFails(i) ==
    /\ i \in 1..Len(workers)
    /\ workers[i] = "running"
    /\ workers' = [workers EXCEPT ![i] = "failed"]
    /\ UNCHANGED <<pc, benv, run, blobURL, result, probes>>
    /\ UNCHANGED notBench

\* Promise.all resolves: end time, cleanup and score
JoinWorkers ==
    /\ pc = "join"
    /\ allPosted(workers)
    /\ \E duration \in Durations :
        run' = [run EXCEPT !.multiCoreScore = multiCoreScoreOf(run.cores, duration)]
    /\ workers' = [i \in 1..Len(workers) |-> "terminated"]
    /\ blobURL' = "revoked"
    /\ probes' = Append(probes, "multi")
    /\ pc' = "finish"
    /\ UNCHANGED <<benv, result>>
    /\ UNCHANGED notBench

\* the device is classified and the promise resolves with the result
ResolveBenchmark ==
    /\ pc = "finish"
    /\ IF getProcessorInfo(benv) = <<"throws">>
       THEN /\ pc' = "rejected"
            /\ UNCHANGED result
       ELSE /\ pc' = "done"
            /\ result' =
                 [int8Score       |-> run.int8Score,
                  fp16Score       |-> run.fp16Score,
                  fp32Score       |-> run.fp32Score,
                  overallScore    |-> run.overallScore,
                  singleCoreScore |-> run.singleCoreScore,
                  multiCoreScore  |-> run.multiCoreScore,
                  aiScore         |-> run.overallScore,
                  deviceClass     |-> classifyAIDevice(run.int8Score, run.fp16Score,
                                                       run.fp32Score),
                  deviceInfo      |-> [processor |-> getProcessorInfo(benv),
                                       cores     |-> run.cores,
                                       ramGB     |-> run.ramGB,
                                       gpu       |-> run.gpu,
                                       npu       |-> run.npu]]
    /\ UNCHANGED <<benv, run, workers, blobURL, probes>>
    /\ UNCHANGED notBench

----------------------------------------------------------------------------
(* formatScore *)

DigitChars == <<"0", "1", "2", "3", "4", "5", "6", "7", "8", "9">>

RECURSIVE toString(_)
\* Number.prototype.toString of an integer >= 0, and of Infinity
toString(n) ==
    IF n = Infinity THEN <<"I", "n", "f", "i", "n", "i", "t", "y">>
    ELSE IF n < 10 THEN <<DigitChars[n + 1]>>
    ELSE Append(toString(n \div 10), DigitChars[(n % 10) + 1])

\* (score / 1000).toFixed(1): the integer n nearest to score / 100, written with
\* a point before its last digit.  score / 100 halfway between two integers:
\* when score / 1000 is a binary fraction the tie is exact and the larger n is
\* taken; otherwise the double nearest to score / 1000 lies above or below the
\* tie, and doubleAbove says which.
toFixed1(score, doubleAbove) ==
    IF score = Infinity THEN <<"I", "n", "f", "i", "n", "i", "t", "y">>
    ELSE LET q == score \div 100
             r == score % 100
             exactTie == r = 50 /\ (2 * q + 1) % 5 = 0
             n == IF r < 50 THEN q
                  ELSE IF r > 50 THEN q + 1
                  ELSE IF exactTie \/ doubleAbove THEN q + 1
                  ELSE q
         IN  toString(n \div 10) \o <<".">> \o toString(n % 10)

\* a plausible slip: > for >=
formatScore_strict(score, doubleAbove) ==
    IF Gt(score, 10000) THEN toFixed1(score, doubleAbove) \o <<"K">>
    ELSE toString(score)

formatScore(score, doubleAbove) ==
    IF Ge(score, 10000) THEN toFixed1(score, doubleAbove) \o <<"K">>
    ELSE toString(score)

\* formatScore is tried on the scores around 10000, on 0, 250, ...,
\* 250 * MaxFormatK and on the scores around 100000
MaxFormatK == 110

FormatInputs ==
    (9940..10060) \cup {250 * k : k \in 0..MaxFormatK} \cup (99940..99960)

FmtInit == fmt = [called |-> FALSE, score |-> 0, text |-> <<>>]

\* the call of formatScore, on some score
FormatScore ==
    /\ ~fmt.called
    /\ \E score \in FormatInputs, doubleAbove \in BOOLEAN :
        fmt' = [called |-> TRUE, score |-> score,
                text |-> formatScore(score, doubleAbove)]
    /\ UNCHANGED notFmt

----------------------------------------------------------------------------
(* getRecommendation *)

\* the arguments getRecommendation is tried on: int8Score and fp16Score are
\* optional fields of GeekbenchResult, and take the values undefined, 0,
\* 1500, ..., 1500 * MaxRecK and Infinity
MaxRecK == 3

RecScores == {Undefined, Infinity} \cup {1500 * k : k \in 0..MaxRecK}

GeekbenchResults ==
    [deviceClass : DeviceClasses, int8Score : RecScores, fp16Score : RecScores]

\* x && x > n, taken as a condition
AndGt(x, n) == x # Undefined /\ x # 0 /\ Gt(x, n)

\* a plausible slip: the plan follows the INT8 score inside a class
planOf_byScore(r) ==
    CASE r.deviceClass = "flagship"    -> "free"
      [] r.deviceClass = "high-end"    ->
            IF AndGt(r.int8Score, 3000) THEN "free" ELSE "compute"
      [] r.deviceClass = "mid-range"   -> "compute"
      [] r.deviceClass = "entry-level" -> "premium"

\* the plan of each case of the switch
planOf(r) ==
    CASE r.deviceClass = "flagship"    -> "free"
      [] r.deviceClass = "high-end"    -> "compute"
      [] r.deviceClass = "mid-range"   -> "compute"
      [] r.deviceClass = "entry-level" -> "premium"

\* the message of each case of the switch
messageOf(r, doubleAbove) ==
    LET hasGoodINT8 == AndGt(r.int8Score, 3000)
        hasFP16Support == AndGt(r.fp16Score, 2000)
        int8 == formatScore(OrElse(r.int8Score, 0), doubleAbove)
        fp16 == formatScore(OrElse(r.fp16Score, 0), doubleAbove)
    IN  CASE r.deviceClass = "flagship" ->
               <<"E", "x", "c", "e", "l", "l", "e", "n", "t", " ", "A", "I", " ", "a", "c", "c", "e", "l", "e", "r", "a", "t", "i", "o", "n", "!", " ", "I", "N", "T", "8", ":", " ">> \o int8 \o <<",", " ", "F", "P", "1", "6", ":", " ">>
               \o fp16 \o <<".", " ", "Y", "o", "u", "r", " ", "d", "e", "v", "i", "c", "e", " ", "c", "a", "n", " ", "r", "u", "n", " ", "q", "u", "a", "n", "t", "i", "z", "e", "d", " ", "m", "o", "d", "e", "l", "s", " ", "l", "o", "c", "a", "l", "l", "y", " ", "w", "i", "t", "h", " ", "s", "t", "r", "o", "n", "g", " ", "i", "n", "f", "e", "r", "e", "n", "c", "e", " ", "p", "e", "r", "f", "o", "r", "m", "a", "n", "c", "e", ".">>
          [] r.deviceClass = "high-end" ->
               <<"G", "r", "e", "a", "t", " ", "q", "u", "a", "n", "t", "i", "z", "a", "t", "i", "o", "n", " ", "s", "u", "p", "p", "o", "r", "t", "!", " ", "I", "N", "T", "8", ":", " ">> \o int8 \o <<".", " ">>
               \o (IF hasGoodINT8 THEN <<"L", "o", "c", "a", "l", " ", "I", "N", "T", "8", " ", "m", "o", "d", "e", "l", "s", " ", "r", "e", "c", "o", "m", "m", "e", "n", "d", "e", "d">>
                   ELSE <<"H", "y", "b", "r", "i", "d", " ", "m", "o", "d", "e", " ", "w", "i", "t", "h", " ", "c", "l", "o", "u", "d", " ", "F", "P", "1", "6">>)
               \o <<" ", "f", "o", "r", " ", "o", "p", "t", "i", "m", "a", "l", " ", "p", "e", "r", "f", "o", "r", "m", "a", "n", "c", "e", ".">>
          [] r.deviceClass = "mid-range" ->
               <<"D", "e", "c", "e", "n", "t", " ", "A", "I", " ", "c", "a", "p", "a", "b", "i", "l", "i", "t", "i", "e", "s", " ", "(", "I", "N", "T", "8", ":", " ">> \o int8 \o <<")", ".", " ">>
               \o (IF hasFP16Support THEN <<"F", "P", "1", "6", " ", "m", "o", "d", "e", "l", "s", " ", "v", "i", "a", " ", "c", "l", "o", "u", "d">>
                   ELSE <<"I", "N", "T", "8", " ", "q", "u", "a", "n", "t", "i", "z", "e", "d", " ", "m", "o", "d", "e", "l", "s">>)
               \o <<" ", "r", "e", "c", "o", "m", "m", "e", "n", "d", "e", "d", ".">>
          [] r.deviceClass = "entry-level" ->
               <<"L", "i", "m", "i", "t", "e", "d", " ", "q", "u", "a", "n", "t", "i", "z", "a", "t", "i", "o", "n", " ", "s", "u", "p", "p", "o", "r", "t", " ", "(", "I", "N", "T", "8", ":", " ">> \o int8
               \o <<")", ".", " ", "C", "l", "o", "u", "d", "-", "b", "a", "s", "e", "d", " ", "F", "P", "1", "6", "/", "F", "P", "3", "2", " ", "i", "n", "f", "e", "r", "e", "n", "c", "e", " ", "r", "e", "c", "o", "m", "m", "e", "n", "d", "e", "d", " ", "f", "o", "r", " ", "b", "e", "s", "t", " ", "a", "c", "c", "u", "r", "a", "c", "y", ".">>

getRecommendation(r, doubleAbove) ==
    [plan |-> planOf(r), message |-> messageOf(r, doubleAbove)]

RecInit == rec = <<>>

\* a call of getRecommendation; two calls are kept, to compare them
GetRecommendation ==
    /\ Len(rec) < 2
    /\ \E r \in GeekbenchResults, doubleAbove \in BOOLEAN :
        rec' = Append(rec, [result |-> r,
                            returned |-> getRecommendation(r, doubleAbove)])
    /\ UNCHANGED notRec

----------------------------------------------------------------------------
(* saveBenchmarkResult *)

\* null in the place of a number
JSONNull == -4

\* JSON.stringify of a number: Infinity is written as null
JSONNumber(x) == IF x = Infinity THEN JSONNull ELSE x

\* JSON.stringify(result), kept as the object the text denotes
JSONStringify(r) ==
    [int8Score       |-> JSONNumber(r.int8Score),
     fp16Score       |-> JSONNumber(r.fp16Score),
     fp32Score       |-> JSONNumber(r.fp32Score),
     overallScore    |-> JSONNumber(r.overallScore),
     singleCoreScore |-> JSONNumber(r.singleCoreScore),
     multiCoreScore  |-> JSONNumber(r.multiCoreScore),
     aiScore         |-> JSONNumber(r.aiScore),
     deviceClass     |-> r.deviceClass,
     deviceInfo      |-> [processor |-> r.deviceInfo.processor,
                          cores     |-> JSONNumber(r.deviceInfo.cores),
                          ramGB     |-> JSONNumber(r.deviceInfo.ramGB),
                          gpu       |-> r.deviceInfo.gpu,
                          npu       |-> r.deviceInfo.npu]]

\* the results saved: what runAIBenchmark resolves with on these scores
SavedResults ==
    {[int8Score       |-> i8,
      fp16Score       |-> f16,
      fp32Score       |-> 2000,
      overallScore    |-> overallScoreOf(i8, f16, 2000),
      singleCoreScore |-> 1429,
      multiCoreScore  |-> 2857,
      aiScore         |-> overallScoreOf(i8, f16, 2000),
      deviceClass     |-> classifyAIDevice(i8, f16, 2000),
      deviceInfo      |-> [processor |-> <<"I", "n", "t", "e", "l">>, cores |-> 2, ramGB |-> 4,
                           gpu |-> <<"W", "e", "b", "G", "L", " ", "G", "P", "U">>, npu |-> Null]] :
        i8 \in ScoreInputs, f16 \in ScoreInputs}

ApiKeys == {<<"k", "e", "y", "-", "a">>, <<"k", "e", "y", "-", "b">>}

\* how the POST ends: 0 for a network failure (fetch rejects), else the HTTP
\* status of the response
NetworkFailure == 0

FetchOutcomes == {NetworkFailure, 200, 201, 204, 400, 401, 404, 500, 503}

\* Response.ok
ResponseOk(status) == 200 <= status /\ status <= 299

\* localStorage.setItem(key, value)
setItem(storage, key, value) ==
    [k \in (DOMAIN storage) \cup {key} |-> IF k = key THEN value ELSE storage[k]]

\* a plausible slip: the response is not looked at, only a rejected fetch falls back
fallsBack_rejectOnly(outcome) == outcome = NetworkFailure

\* a plausible slip: the local copy is written in a finally block
fallsBack_always(outcome) == outcome = NetworkFailure \/ outcome > 0

\* the try block of saveBenchmarkResult throws
fallsBack(outcome) == outcome = NetworkFailure \/ ~ResponseOk(outcome)

SaveInit ==
    /\ localStorage = <<>>
    /\ requests = <<>>
    /\ save = [status |-> "idle", outcome |-> NetworkFailure, result |-> NoResult]

\* the call of saveBenchmarkResult: one POST, and the local copy when it fails
SaveBenchmarkResult ==
    /\ save.status = "idle"
    /\ \E r \in SavedResults, apiKey \in ApiKeys, outcome \in FetchOutcomes :
        /\ requests' = Append(requests,
                              [url           |-> <<"h", "t", "t", "p", ":", "/", "/", "1", "0", "0", ".", "1", "1", "0", ".", "8", "2", ".", "1", "8", "1", ":", "8", "0", "0", "2", "/", "a", "p", "i", "/", "b", "e", "n", "c", "h", "m", "a", "r", "k">>,
                               method        |-> "POST",
                               authorization |-> <<"B", "e", "a", "r", "e", "r", " ">> \o apiKey,
                               body          |-> JSONStringify(r)])
        /\ localStorage' = IF fallsBack(outcome)
                           THEN setItem(localStorage, "wolf_benchmark", JSONStringify(r))
                           ELSE localStorage
        /\ save' = [status |-> "returned", outcome |-> outcome, result |-> r]
    /\ UNCHANGED notSave

----------------------------------------------------------------------------
(* The onboarding wizard (components/OnboardingFlow.tsx) and its tables *)

\* isBetaUser = (userCount || 0) < 100, isEarlyAdopter = (userCount || 0) < 1000
BetaLimit == 100
EarlyAdopterLimit == 1000

\* the browsers that call handleRegistration at the same time
MaxClients == 2

Clients == 1..MaxClients

\* the browser whose wizard is followed through all its steps
WizardClients == {c \in Clients : \A d \in Clients : c <= d}

\* the user names and e-mail addresses the new users type, kept as numbers
\* apart from those of the users registered before
MaxNames == 2

NewNames == {EarlyAdopterLimit + k : k \in 1..MaxNames}

\* time, in minutes: the clock advances MaxClockTicks times by ClockStep
ClockStep == 8
MaxClockTicks == 2

\* expires_at of an e-mail code: Date.now() + 15 * 60 * 1000; of an RCS code:
\* Date.now() + 10 * 60 * 1000
EmailCodeMinutes == 15
RcsCodeMinutes == 10

\* no timestamp (verified_at is null)
NoTime == -1

\* Math.floor(10000000 + Math.random() * 90000000): the first MaxPins of them
PinBase == 10000000
MaxPins == 2

Pins == {PinBase + k : k \in 0..(MaxPins - 1)}

\* the plans the subscription step offers, by id
MaxPlans == 2

Plans == 1..MaxPlans

\* NULL in the place of a user id (ids are the positions of the rows)
NoUser == 0

\* the users table after BetaLimit - 1 registrations made one after the other:
\* every one of them counted fewer than BetaLimit users
RegisteredBefore ==
    [i \in 1..(BetaLimit - 1) |->
        [username |-> i, email |-> i, beta_user |-> TRUE, early_adopter |-> TRUE,
         referred_by |-> NoUser, referral_count |-> 0,
         email_verified |-> FALSE, rcs_verified |-> FALSE]]

\* the rows .or(`username.eq.${username},email.eq.${email}`) selects
rowsMatching(table, username, email) ==
    {i \in 1..Len(table) : table[i].username = username \/ table[i].email = email}

\* username text UNIQUE, email text UNIQUE: the insert is refused
violatesUnique(table, username, email) ==
    \E i \in 1..Len(table) : table[i].username = username \/ table[i].email = email

\* the unverified e-mail codes of a user that carry the pin
codesMatching(table, userId, pin) ==
    {i \in 1..Len(table) : /\ table[i].user_id = userId
                           /\ table[i].code_type = "email"
                           /\ table[i].code = pin
                           /\ table[i].verified_at = NoTime}

\* a plausible slip: the comparison the other way round
isExpired_reversed(expires_at, time) == expires_at > time

\* new Date(code.expires_at) < new Date()
isExpired(expires_at, time) == expires_at < time

\* a plausible slip: a verified e-mail leads straight to the subscription step
afterEmailVerification_skip == "subscription"

\* the step handleEmailVerification moves to
afterEmailVerification == "rcs-verification"

\* the steps of the wizard, in their order
steps == <<"registration", "email-verification", "rcs-verification",
           "subscription", "complete">>

\* steps.findIndex(s => s.id === currentStep), counted from 1
currentStepIndex(currentStep) ==
    CHOOSE i \in 1..Len(steps) : steps[i] = currentStep

\* the arguments and local variables of a handler that is not running
NoLocals ==
    [username |-> 0, email |-> 0, userCount |-> 0,
     isBetaUser |-> FALSE, isEarlyAdopter |-> FALSE, userId |-> NoUser,
     pin |-> 0, expiresAt |-> 0, codeId |-> 0, plan |-> 0]

\* the state of a wizard that has just been opened.  pc is the await at which
\* the running handler stands ("idle": none runs) and call names the handler
\* that ran last; the other fields are the React state, and the arguments and
\* local variables of the running handler; submitted is the last call of
\* onSubmit by the PIN form, the PIN and the time
NoRegistration ==
    [pc |-> "idle", call |-> "none",
     currentStep |-> "registration", loading |-> FALSE, error |-> "none",
     onboardingData |-> [userId |-> NoUser, username |-> 0, email |-> 0,
                         selectedPlan |-> 0],
     submitted |-> [pin |-> 0, at |-> 0],
     local |-> NoLocals]

RegInit ==
    /\ users = RegisteredBefore
    /\ codes = <<>>
    /\ subscriptions = <<>>
    /\ outbox = <<>>
    /\ now = 0
    /\ reg = [c \in Clients |-> NoRegistration]

\* a handler starts: setLoading(true); setError(null)
Started(r, call, at) ==
    [r EXCEPT !.pc = at, !.call = call, !.loading = TRUE, !.error = "none"]

\* a handler throws: the catch block sets the error, finally clears loading
Caught(r, message) ==
    [r EXCEPT !.pc = "idle", !.loading = FALSE, !.error = message,
              !.local = NoLocals]

\* a handler ends with setCurrentStep(step); finally clears loading
Advanced(r, step) ==
    [r EXCEPT !.pc = "idle", !.loading = FALSE, !.currentStep = step,
              !.local = NoLocals]

\* time passes
Tick ==
    /\ now + ClockStep <= MaxClockTicks * ClockStep
    /\ now' = now + ClockStep
    /\ UNCHANGED <<users, codes, subscriptions, outbox, reg, rewards>>
    /\ UNCHANGED notReg

\* the registration form of client c is submitted, without a referral code
HandleRegistration(c) ==
    /\ reg[c].pc = "idle"
    /\ reg[c].currentStep = "registration"
    /\ \E username \in NewNames, email \in NewNames :
        reg' = [reg EXCEPT ![c] = [Started(@, "register", "existing")
                                      EXCEPT !.local.username = username,
                                             !.local.email = email]]
    /\ UNCHANGED <<users, codes, subscriptions, outbox, now, rewards>>
    /\ UNCHANGED notReg

\* 'Resend verification code' on the e-mail verification step: onResend calls
\* handleRegistration with the user name and the e-mail address of
\* onboardingData
ResendVerificationCode(c) ==
    /\ reg[c].pc = "idle"
    /\ reg[c].currentStep = "email-verification"
    /\ reg' = [reg EXCEPT ![c] =
                  [Started(@, "resend", "existing")
                          EXCEPT !.local.username = reg[c].onboardingData.username,
                                 !.local.email = reg[c].onboardingData.email]]
    /\ UNCHANGED <<users, codes, subscriptions, outbox, now, rewards>>
    /\ UNCHANGED notReg

\* the query for an existing user answers: maybeSingle gives the row when
\* exactly one matches, and null (with an error nobody reads) otherwise
SelectExistingUser(c) ==
    /\ reg[c].pc = "existing"
    /\ IF Cardinality(rowsMatching(users, reg[c].local.username, reg[c].local.email)) = 1
       THEN reg' = [reg EXCEPT ![c] = Caught(@, "Username or email already exists")]
       ELSE reg' = [reg EXCEPT ![c] = [@ EXCEPT !.pc = "count"]]
    /\ UNCHANGED <<users, codes, subscriptions, outbox, now, rewards>>
    /\ UNCHANGED notReg

\* the count query answers with the number of rows of that moment
CountUsers(c) ==
    /\ reg[c].pc = "count"
    /\ LET userCount == Len(users)
       IN  reg' = [reg EXCEPT ![c] =
                      [@ EXCEPT !.pc = "insert",
                                !.local.userCount = userCount,
                                !.local.isBetaUser = OrElse(userCount, 0) < BetaLimit,
                                !.local.isEarlyAdopter = OrElse(userCount, 0) < EarlyAdopterLimit]]
    /\ UNCHANGED <<users, codes, subscriptions, outbox, now, rewards>>
    /\ UNCHANGED notReg

\* the insert into users answers: the row, or the error of a unique
\* constraint; referred_by is null, so the trigger process_referral does
\* nothing.  With the row, the PIN is drawn and its expiry computed
InsertUser(c) ==
    /\ reg[c].pc = "insert"
    /\ \E pin \in Pins :
       IF violatesUnique(users, reg[c].local.username, reg[c].local.email)
       THEN /\ reg' = [reg EXCEPT ![c] = Caught(@, "duplicate key value")]
            /\ UNCHANGED users
       ELSE /\ users' = Append(users, [username       |-> reg[c].local.username,
                                       email          |-> reg[c].local.email,
                                       beta_user      |-> reg[c].local.isBetaUser,
                                       early_adopter  |-> reg[c].local.isEarlyAdopter,
                                       referred_by    |-> NoUser,
                                       referral_count |-> 0,
                                       email_verified |-> FALSE,
                                       rcs_verified   |-> FALSE])
            /\ reg' = [reg EXCEPT ![c] =
                          [@ EXCEPT !.pc = "code",
                                    !.local.userId = Len(users) + 1,
                                    !.local.pin = pin,
                                    !.local.expiresAt = now + EmailCodeMinutes]]
    /\ UNCHANGED <<codes, subscriptions, outbox, now, rewards>>
    /\ UNCHANGED notReg

\* the insert into verification_codes answers, with the row or with an error
InsertVerificationCode(c) ==
    /\ reg[c].pc = "code"
    /\ \E codeError \in BOOLEAN :
        IF codeError
        THEN /\ reg' = [reg EXCEPT ![c] = Caught(@, "codeError")]
             /\ UNCHANGED codes
        ELSE /\ codes' = Append(codes, [user_id     |-> reg[c].local.userId,
                                        code_type   |-> "email",
                                        code        |-> reg[c].local.pin,
                                        expires_at  |-> reg[c].local.expiresAt,
                                        verified_at |-> NoTime])
             /\ reg' = [reg EXCEPT ![c] = [@ EXCEPT !.pc = "send"]]
    /\ UNCHANGED <<users, subscriptions, outbox, now, rewards>>
    /\ UNCHANGED notReg

\* the POST to send-verification-email settles: with any response the flow
\* moves to the e-mail verification step, a rejected fetch is caught
SendVerificationEmail(c) ==
    /\ reg[c].pc = "send"
    /\ \E rejected \in BOOLEAN :
        IF rejected
        THEN /\ reg' = [reg EXCEPT ![c] = Caught(@, "Failed to fetch")]
             /\ UNCHANGED outbox
        ELSE /\ outbox' = Append(outbox, [email |-> reg[c].local.email,
                                          pin   |-> reg[c].local.pin])
             /\ reg' = [reg EXCEPT ![c] =
                           [Advanced(@, "email-verification")
                               EXCEPT !.onboardingData =
                                          [@ EXCEPT !.userId = reg[c].local.userId,
                                                    !.username = reg[c].local.username,
                                                    !.email = reg[c].local.email]]]
    /\ UNCHANGED <<users, codes, subscriptions, now, rewards>>
    /\ UNCHANGED notReg

\* the eighth digit of a PIN is typed: handleEmailVerification(pin) starts
HandleEmailVerification(c) ==
    /\ reg[c].pc = "idle"
    /\ reg[c].currentStep = "email-verification"
    /\ \E pin \in Pins :
        reg' = [reg EXCEPT ![c] = [Started(@, "verify-email", "select-code")
                                      EXCEPT !.submitted = [pin |-> pin, at |-> now]]]
    /\ UNCHANGED <<users, codes, subscriptions, outbox, now, rewards>>
    /\ UNCHANGED notReg

\* the query for the code answers (null when it fails or when not exactly one
\* row matches), and the expiry of the row is compared with the clock
SelectVerificationCode(c) ==
    /\ reg[c].pc = "select-code"
    /\ \E failed \in BOOLEAN :
        LET matching == codesMatching(codes, reg[c].onboardingData.userId,
                                      reg[c].submitted.pin)
        IN  IF failed \/ Cardinality(matching) # 1
            THEN reg' = [reg EXCEPT ![c] =
                            Caught(@, "Invalid or expired verification code")]
            ELSE LET id == CHOOSE i \in matching : TRUE
                 IN  IF isExpired(codes[id].expires_at, now)
                     THEN reg' = [reg EXCEPT ![c] =
                                     Caught(@, "Verification code has expired")]
                     ELSE reg' = [reg EXCEPT ![c] = [@ EXCEPT !.pc = "mark-code",
                                                              !.local.codeId = id]]
    /\ UNCHANGED <<users, codes, subscriptions, outbox, now, rewards>>
    /\ UNCHANGED notReg

\* the update of verified_at answers; its error is not looked at
MarkCodeVerified(c) ==
    /\ reg[c].pc = "mark-code"
    /\ \E persisted \in BOOLEAN :
        codes' = IF persisted
                 THEN [codes EXCEPT ![reg[c].local.codeId] = [@ EXCEPT !.verified_at = now]]
                 ELSE codes
    /\ reg' = [reg EXCEPT ![c] = [@ EXCEPT !.pc = "mark-email"]]
    /\ UNCHANGED <<users, subscriptions, outbox, now, rewards>>
    /\ UNCHANGED notReg

\* the update of email_verified answers; its error is not looked at, and the
\* wizard moves on
MarkEmailVerified(c) ==
    /\ reg[c].pc = "mark-email"
    /\ \E persisted \in BOOLEAN :
        users' = IF persisted
                 THEN [users EXCEPT ![reg[c].onboardingData.userId] =
                                        [@ EXCEPT !.email_verified = TRUE]]
                 ELSE users
    /\ reg' = [reg EXCEPT ![c] = Advanced(@, afterEmailVerification)]
    /\ UNCHANGED <<codes, subscriptions, outbox, now, rewards>>
    /\ UNCHANGED notReg

\* the RCS check is started: the code is drawn and its expiry computed
HandleRCSVerification(c) ==
    /\ reg[c].pc = "idle"
    /\ reg[c].currentStep = "rcs-verification"
    /\ \E rcsCode \in Pins :
        reg' = [reg EXCEPT ![c] = [Started(@, "verify-rcs", "rcs-code")
                                      EXCEPT !.local.pin = rcsCode,
                                             !.local.expiresAt = now + RcsCodeMinutes]]
    /\ UNCHANGED <<users, codes, subscriptions, outbox, now, rewards>>
    /\ UNCHANGED notReg

\* the insert of the RCS code answers; its error is not looked at
InsertRCSCode(c) ==
    /\ reg[c].pc = "rcs-code"
    /\ \E persisted \in BOOLEAN :
        codes' = IF persisted
                 THEN Append(codes, [user_id     |-> reg[c].onboardingData.userId,
                                     code_type   |-> "rcs",
                                     code        |-> reg[c].local.pin,
                                     expires_at  |-> reg[c].local.expiresAt,
                                     verified_at |-> NoTime])
                 ELSE codes
    /\ reg' = [reg EXCEPT ![c] = [@ EXCEPT !.pc = "mark-rcs"]]
    /\ UNCHANGED <<users, subscriptions, outbox, now, rewards>>
    /\ UNCHANGED notReg

\* the update of rcs_verified answers; its error is not looked at, and the
\* wizard moves on
MarkRCSVerified(c) ==
    /\ reg[c].pc = "mark-rcs"
    /\ \E persisted \in BOOLEAN :
        users' = IF persisted
                 THEN [users EXCEPT ![reg[c].onboardingData.userId] =
                                        [@ EXCEPT !.rcs_verified = TRUE]]
                 ELSE users
    /\ reg' = [reg EXCEPT ![c] = Advanced(@, "subscription")]
    /\ UNCHANGED <<codes, subscriptions, outbox, now, rewards>>
    /\ UNCHANGED notReg

\* a plan is chosen
HandleSubscriptionSelection(c) ==
    /\ reg[c].pc = "idle"
    /\ reg[c].currentStep = "subscription"
    /\ \E plan \in Plans :
        reg' = [reg EXCEPT ![c] = [Started(@, "subscribe", "subscribe")
                                      EXCEPT !.local.plan = plan]]
    /\ UNCHANGED <<users, codes, subscriptions, outbox, now, rewards>>
    /\ UNCHANGED notReg

\* the insert into user_subscriptions answers; its error is not looked at,
\* and the wizard completes
InsertSubscription(c) ==
    /\ reg[c].pc = "subscribe"
    /\ \E persisted \in BOOLEAN :
        subscriptions' =
            IF persisted
            THEN Append(subscriptions, [user_id |-> reg[c].onboardingData.userId,
                                        plan_id |-> reg[c].local.plan,
                                        status  |-> "pending"])
            ELSE subscriptions
    /\ reg' = [reg EXCEPT ![c] =
                  [Advanced(@, "complete")
                      EXCEPT !.onboardingData =
                                 [@ EXCEPT !.selectedPlan = reg[c].local.plan]]]
    /\ UNCHANGED <<users, codes, outbox, now, rewards>>
    /\ UNCHANGED notReg

----------------------------------------------------------------------------
(* Sign-in with Authentik (lib/auth.ts and AuthentikSignInStep) *)

\* String(x): undefined is written "undefined"
StringOf(x) == RegExpSubject(x)

\* generateRandomString(length) over the characters A and ~ of the charset;
\* the verifier has 128 characters and the state 32, here MaxRandomLen
MaxRandomLen == 2

RandomStrings == [1..MaxRandomLen -> {"A", "~"}]

\* sha256(plain), base64url-encoded: a stand-in that is free of collisions and
\* never gives its argument back (the argument reversed, after a mark)
sha256(plain) == <<"#">> \o [i \in 1..Len(plain) |-> plain[Len(plain) + 1 - i]]

\* what the promise of generatePKCE resolves to
generatePKCE(verifier) == [verifier |-> verifier, challenge |-> sha256(verifier)]

\* const { verifier, challenge } = <a Promise>: the call is not awaited, and a
\* Promise object has neither property, so both names are bound to undefined
DestructurePromise(resolution) == [verifier |-> NoString, challenge |-> NoString]

\* what the user types into the two fields before pressing sign-in
PhoneNumbers == {<<>>, <<"+", "1", "5", "5", "5", "0", "1", "0", "0">>}
ReferralCodes == {<<>>, <<"W", "O", "L", "F", "4", "2">>}

RedirectUri == <<"h", "t", "t", "p", "s", ":", "/", "/", "a", "p", "p", ".", "e", "x", "a", "m", "p", "l", "e", "/", "o", "n", "b", "o", "a", "r", "d", "i", "n", "g">>

AuthorizationCodes == {<<"c", "o", "d", "e", "-", "1">>, <<"c", "o", "d", "e", "-", "2">>}

\* sessionStorage.getItem(key): null for a missing key
getItem(storage, key) == IF key \in DOMAIN storage THEN storage[key] ELSE Null

\* sessionStorage.removeItem(key)
removeItem(storage, key) == [k \in (DOMAIN storage) \ {key} |-> storage[k]]

\* the query of no navigation to Authentik
NoAuthorize ==
    [redirect_uri |-> Null, response_type |-> Null, scope |-> Null,
     code_challenge |-> Null, code_challenge_method |-> Null, state |-> Null]

\* the sign-in step before anything is typed; entered and generated keep what
\* the user typed before pressing sign-in and what generatePKCE made
SSOInit ==
    /\ sso = [pc |-> "form", phoneNumber |-> <<>>, referralCode |-> <<>>,
              loading |-> FALSE, isCallback |-> FALSE, error |-> Null,
              code |-> Null,
              entered |-> [phoneNumber |-> <<>>, referralCode |-> <<>>],
              generated |-> [verifier |-> Null, challenge |-> Null],
              accessToken |-> Null]
    /\ sessionStorage = <<>>
    /\ authorize = NoAuthorize
    /\ authRequests = <<>>

\* handleSignIn with the fields as typed, and initiateAuthentikOAuth: the
\* typed values and the PKCE verifier go to sessionStorage, the browser
\* leaves for the authorize endpoint
HandleSignIn ==
    /\ sso.pc = "form"
    /\ \E phoneNumber \in PhoneNumbers, referralCode \in ReferralCodes,
          random \in RandomStrings, state \in RandomStrings :
        LET resolution == generatePKCE(random)
            pkce == DestructurePromise(resolution)
            withPhone == IF phoneNumber # <<>>
                         THEN setItem(sessionStorage, "pending_phone", phoneNumber)
                         ELSE sessionStorage
            withReferral == IF referralCode # <<>>
                            THEN setItem(withPhone, "pending_referral", referralCode)
                            ELSE withPhone
        IN  /\ sessionStorage' =
                 setItem(setItem(withReferral, "pkce_verifier", StringOf(pkce.verifier)),
                         "oauth_redirect_uri", RedirectUri)
            /\ authorize' = [redirect_uri          |-> RedirectUri,
                             response_type         |-> <<"c", "o", "d", "e">>,
                             scope                 |-> <<"o", "p", "e", "n", "i", "d", " ", "p", "r", "o", "f", "i", "l", "e", " ", "e", "m", "a", "i", "l">>,
                             code_challenge        |-> StringOf(pkce.challenge),
                             code_challenge_method |-> <<"S", "2", "5", "6">>,
                             state                 |-> state]
            /\ sso' = [sso EXCEPT !.pc = "authentik",
                                  !.phoneNumber = phoneNumber,
                                  !.referralCode = referralCode,
                                  !.entered = [phoneNumber |-> phoneNumber,
                                               referralCode |-> referralCode],
                                  !.generated = resolution]
    /\ UNCHANGED <<authRequests, localStorage>>
    /\ UNCHANGED notSSO

\* Authentik redirects back to redirect_uri: the page is loaded anew, so the
\* state of the component is the initial one, and the effect reads the query:
\* an error is shown, or handleCallback(code) starts
ReturnFromAuthentik ==
    /\ sso.pc = "authentik"
    /\ \/ \E code \in AuthorizationCodes :
            sso' = [sso EXCEPT !.pc = "callback", !.phoneNumber = <<>>,
                               !.referralCode = <<>>, !.isCallback = TRUE,
                               !.loading = TRUE, !.error = Null, !.code = code]
       \/ sso' = [sso EXCEPT !.pc = "failed", !.phoneNumber = <<>>,
                             !.referralCode = <<>>,
                             !.error = <<"A", "u", "t", "h", "e", "n", "t", "i", "c", "a", "t", "i", "o", "n", " ", "f", "a", "i", "l", "e", "d", ":", " ", "a", "c", "c", "e", "s", "s", "_", "d", "e", "n", "i", "e", "d">>]
    /\ UNCHANGED <<sessionStorage, authorize, authRequests, localStorage>>
    /\ UNCHANGED notSSO

\* handleAuthentikCallback up to the answer of the token endpoint
ExchangeCode ==
    /\ sso.pc = "callback"
    /\ LET verifier == getItem(sessionStorage, "pkce_verifier")
           redirectUri == getItem(sessionStorage, "oauth_redirect_uri")
       IN  IF verifier \in {Null, <<>>} \/ redirectUri \in {Null, <<>>}
           THEN /\ sso' = [sso EXCEPT !.pc = "failed", !.loading = FALSE,
                                      !.error = <<"O", "A", "u", "t", "h", " ", "s", "e", "s", "s", "i", "o", "n", " ", "e", "x", "p", "i", "r", "e", "d">>]
                /\ UNCHANGED authRequests
           ELSE /\ authRequests' =
                     Append(authRequests,
                            [endpoint      |-> "token",
                             grant_type    |-> <<"a", "u", "t", "h", "o", "r", "i", "z", "a", "t", "i", "o", "n", "_", "c", "o", "d", "e">>,
                             code          |-> sso.code,
                             redirect_uri  |-> redirectUri,
                             code_verifier |-> verifier])
                /\ \E ok \in BOOLEAN :
                     sso' = IF ok
                            THEN [sso EXCEPT !.pc = "userinfo",
                                             !.accessToken = <<"a", "c", "c", "e", "s", "s", "-", "t", "o", "k", "e", "n">>]
                            ELSE [sso EXCEPT !.pc = "failed", !.loading = FALSE,
                                             !.error = <<"F", "a", "i", "l", "e", "d", " ", "t", "o", " ", "e", "x", "c", "h", "a", "n", "g", "e", " ", "a", "u", "t", "h", "o", "r", "i", "z", "a", "t", "i", "o", "n", " ", "c", "o", "d", "e">>]
    /\ UNCHANGED <<sessionStorage, authorize, localStorage>>
    /\ UNCHANGED notSSO

\* the request to the userinfo endpoint and its answer
GetUserInfo ==
    /\ sso.pc = "userinfo"
    /\ authRequests' = Append(authRequests,
                              [endpoint      |-> "userinfo",
                               authorization |-> <<"B", "e", "a", "r", "e", "r", " ">> \o sso.accessToken])
    /\ \E ok \in BOOLEAN :
         sso' = IF ok
                THEN [sso EXCEPT !.pc = "sso"]
                ELSE [sso EXCEPT !.pc = "failed", !.loading = FALSE,
                                 !.error = <<"F", "a", "i", "l", "e", "d", " ", "t", "o", " ", "g", "e", "t", " ", "u", "s", "e", "r", " ", "i", "n", "f", "o">>]
    /\ UNCHANGED <<sessionStorage, authorize, localStorage>>
    /\ UNCHANGED notSSO

\* the registration request to /api/auth/sso, with the phone number and the
\* referral code handleCallback passed, and its answer
RegisterWithSSO ==
    /\ sso.pc = "sso"
    /\ authRequests' = Append(authRequests,
                              [endpoint        |-> "sso",
                               email           |-> <<"u", "s", "e", "r", "@", "e", "x", "a", "m", "p", "l", "e", ".", "o", "r", "g">>,
                               name            |-> <<"U", "s", "e", "r">>,
                               sub             |-> <<"s", "u", "b", "-", "1">>,
                               phone_number    |-> sso.phoneNumber,
                               referral_code   |-> sso.referralCode,
                               authentik_token |-> sso.accessToken])
    /\ \E ok \in BOOLEAN :
         IF ok
         THEN /\ localStorage' =
                   setItem(setItem(localStorage, "wolf_auth_token", <<"w", "o", "l", "f", "-", "t", "o", "k", "e", "n">>),
                           "wolf_user", <<"u", "s", "e", "r", "-", "1">>)
              /\ sessionStorage' = removeItem(removeItem(sessionStorage, "pkce_verifier"),
                                              "oauth_redirect_uri")
              /\ sso' = [sso EXCEPT !.pc = "signed-in", !.loading = FALSE]
         ELSE /\ sso' = [sso EXCEPT !.pc = "failed", !.loading = FALSE,
                                    !.error = <<"A", "u", "t", "h", "e", "n", "t", "i", "c", "a", "t", "i", "o", "n", " ", "f", "a", "i", "l", "e", "d">>]
              /\ UNCHANGED <<localStorage, sessionStorage>>
    /\ UNCHANGED authorize
    /\ UNCHANGED notSSO

----------------------------------------------------------------------------
(* The trigger process_referral and the referral_rewards table *)

\* IF ref_count >= 10
FreeAppReferrals == 10

\* the users that hand out their referral code: the first MaxReferrers rows
MaxReferrers == 2

Referrers == 1..MaxReferrers

\* the number of users inserted with a referrer
MaxReferredUsers == 11

\* UPDATE users SET referral_count = referral_count + 1 WHERE id = referrer
countReferral(table, referrer) ==
    [table EXCEPT ![referrer] = [@ EXCEPT !.referral_count = @ + 1]]

\* the rows process_referral inserts for the new row newId: a free_month row,
\* and a free_app row when the count just written is >= 10.  The table has no
\* unique constraint but its generated id, so ON CONFLICT DO NOTHING never
\* finds a conflict.
referralRewards(table, referrer, newId) ==
    <<[user_id |-> referrer, referred_user_id |-> newId, reward_type |-> "free_month"]>>
    \o (IF table[referrer].referral_count >= FreeAppReferrals
        THEN <<[user_id |-> referrer, referred_user_id |-> newId,
                reward_type |-> "free_app"]>>
        ELSE <<>>)

RefInit == rewards = <<>>

\* a user is inserted with referred_by = referrer (handleRegistration found
\* the referral code), and the trigger runs in the transaction of the insert
InsertReferredUser(referrer) ==
    /\ Len(users) < Len(RegisteredBefore) + MaxReferredUsers
    /\ LET newId == Len(users) + 1
           inserted == Append(users, [username       |-> newId,
                                      email          |-> newId,
                                      beta_user      |-> Len(users) < BetaLimit,
                                      early_adopter  |-> Len(users) < EarlyAdopterLimit,
                                      referred_by    |-> referrer,
                                      referral_count |-> 0,
                                      email_verified |-> FALSE,
                                      rcs_verified   |-> FALSE])
           counted == countReferral(inserted, referrer)
       IN  /\ ~violatesUnique(users, newId, newId)
           /\ users' = counted
           /\ rewards' = rewards \o referralRewards(counted, referrer, newId)
    /\ UNCHANGED notRef

----------------------------------------------------------------------------
(* Specifications *)

Init == ClsInit /\ DetInit /\ BenchInit /\ FmtInit /\ RecInit /\ SaveInit
        /\ RegInit /\ SSOInit /\ RefInit

ClassifyNext == ClassifyAIDevice

ClassifySpec == Init /\ [][ClassifyNext]_vars

DetectNext == DetectDeviceCapabilities

DetectSpec == Init /\ [][DetectNext]_vars

BenchNext ==
    \/ RunAIBenchmark
    \/ TestINT8Quantization
    \/ TestFP16Quantization
    \/ TestFP32Quantization
    \/ TestSingleCore
    \/ SpawnWorkers
    \/ \E i \in 1..MaxBenchCores : WorkerPosts(i)
    \/ \E i \in 1..MaxBenchCores : WorkerFails(i)
    \/ JoinWorkers
    \/ ResolveBenchmark

BenchSpec == Init /\ [][BenchNext]_vars

\* the steps of runAIBenchmark on the main thread
MainThread ==
    \/ RunAIBenchmark
    \/ TestINT8Quantization
    \/ TestFP16Quantization
    \/ TestFP32Quantization
    \/ TestSingleCore
    \/ SpawnWorkers
    \/ JoinWorkers
    \/ ResolveBenchmark

\* fair scheduling: the event loop runs every continuation that is ready,
\* and a worker that does not die runs its loop to the end
FairBenchSpec ==
    /\ BenchSpec
    /\ WF_vars(MainThread)
    /\ \A i \in 1..MaxBenchCores : WF_vars(WorkerPosts(i))

FormatNext == FormatScore

FormatSpec == Init /\ [][FormatNext]_vars

SaveNext == SaveBenchmarkResult

SaveSpec == Init /\ [][SaveNext]_vars

RecommendNext == GetRecommendation

RecommendSpec == Init /\ [][RecommendNext]_vars

RegisterNext ==
    \/ \E c \in Clients : HandleRegistration(c)
    \/ \E c \in Clients : SelectExistingUser(c)
    \/ \E c \in Clients : CountUsers(c)
    \/ \E c \in Clients : InsertUser(c)
    \/ \E c \in Clients : InsertVerificationCode(c)
    \/ \E c \in Clients : SendVerificationEmail(c)

RegisterSpec == Init /\ [][RegisterNext]_vars

\* one wizard, from the registration form to the last step
WizardNext ==
    \/ Tick
    \/ \E c \in WizardClients : HandleRegistration(c)
    \/ \E c \in WizardClients : ResendVerificationCode(c)
    \/ \E c \in WizardClients : SelectExistingUser(c)
    \/ \E c \in WizardClients : CountUsers(c)
    \/ \E c \in WizardClients : InsertUser(c)
    \/ \E c \in WizardClients : InsertVerificationCode(c)
    \/ \E c \in WizardClients : SendVerificationEmail(c)
    \/ \E c \in WizardClients : HandleEmailVerification(c)
    \/ \E c \in WizardClients : SelectVerificationCode(c)
    \/ \E c \in WizardClients : MarkCodeVerified(c)
    \/ \E c \in WizardClients : MarkEmailVerified(c)
    \/ \E c \in WizardClients : HandleRCSVerification(c)
    \/ \E c \in WizardClients : InsertRCSCode(c)
    \/ \E c \in WizardClients : MarkRCSVerified(c)
    \/ \E c \in WizardClients : HandleSubscriptionSelection(c)
    \/ \E c \in WizardClients : InsertSubscription(c)

WizardSpec == Init /\ [][WizardNext]_vars

ReferralNext == \E referrer \in Referrers : InsertReferredUser(referrer)

ReferralSpec == Init /\ [][ReferralNext]_vars

SignInNext ==
    \/ HandleSignIn
    \/ ReturnFromAuthentik
    \/ ExchangeCode
    \/ GetUserInfo
    \/ RegisterWithSSO

SignInSpec == Init /\ [][SignInNext]_vars

Next ==
    \/ ClassifyNext
    \/ DetectNext
    \/ BenchNext
    \/ FormatNext
    \/ RecommendNext
    \/ SaveNext
    \/ RegisterNext
    \/ WizardNext
    \/ SignInNext
    \/ ReferralNext

Spec == Init /\ [][Next]_vars

----------------------------------------------------------------------------
(* Claims *)

Rank(c) == CASE c = "flagship"    -> 3
             [] c = "high-end"    -> 2
             [] c = "mid-range"   -> 1
             [] c = "entry-level" -> 0

WeightedOf(r) == Weighted10(r.int8Score, r.fp16Score, r.fp32Score)

\* the class the first matching rule gives, with the bounds as the code has them
\* (strict) or as the specification words them (inclusive)
RuleClass(r, inclusive) ==
    LET w10  == WeightedOf(r)
        i8   == r.int8Score
        Over(x, n) == IF inclusive THEN (x = Infinity \/ x >= n)
                                   ELSE (x = Infinity \/ x > n)
    IN  CASE Over(w10, 40000) /\ Over(i8, 5000) -> "flagship"
          [] ~(Over(w10, 40000) /\ Over(i8, 5000))
             /\ Over(w10, 25000) /\ Over(i8, 3000) -> "high-end"
          [] ~(Over(w10, 40000) /\ Over(i8, 5000))
             /\ ~(Over(w10, 25000) /\ Over(i8, 3000))
             /\ Over(w10, 15000) -> "mid-range"
          [] OTHER -> "entry-level"

\* C2 (as claimed): the class is the first match of flagship (weighted >= 4000
\* and int8 >= 5000), high-end (weighted >= 2500 and int8 >= 3000), mid-range
\* (weighted >= 1500), else entry-level, with inclusive bounds.
C2_InclusiveThresholds ==
    \A i \in 1..Len(cls) : cls[i].deviceClass = RuleClass(cls[i], TRUE)

\* C2 (amended): the same ordered rules with strict bounds: flagship when
\* weighted > 4000 and int8 > 5000, high-end when weighted > 2500 and
\* int8 > 3000, mid-range when weighted > 1500, else entry-level; a device with
\* weighted exactly 4000 and int8 exactly 5000 is high-end, and one with
\* weighted exactly 1500 is entry-level.
C2_StrictThresholds ==
    \A i \in 1..Len(cls) :
        /\ cls[i].deviceClass = RuleClass(cls[i], FALSE)
        /\ (WeightedOf(cls[i]) = 40000 /\ cls[i].int8Score = 5000)
              => cls[i].deviceClass = "high-end"
        /\ WeightedOf(cls[i]) = 15000 => cls[i].deviceClass = "entry-level"

\* a device exactly on the flagship bounds and a device exactly on the
\* mid-range bound have both been classified
C2_Witness ==
    /\ Len(cls) = 2
    /\ WeightedOf(cls[1]) = 40000 /\ cls[1].int8Score = 5000
    /\ WeightedOf(cls[2]) = 15000

\* C3: a strictly higher weighted score with an equal or higher int8 score
\* never gets a lower-ranked class.
C3_ClassMonotonic ==
    Len(cls) = 2 =>
        LET A == cls[1]
            B == cls[2]
            higher == /\ WeightedOf(A) # Infinity
                      /\ Gt(WeightedOf(B), WeightedOf(A))
            int8GE == \/ B.int8Score = Infinity
                      \/ (A.int8Score # Infinity /\ B.int8Score >= A.int8Score)
        IN  (higher /\ int8GE) => Rank(B.deviceClass) >= Rank(A.deviceClass)

\* two devices of different classes, the second with the strictly higher
\* weighted score and the higher int8 score
C3_Witness ==
    /\ Len(cls) = 2
    /\ WeightedOf(cls[1]) # Infinity /\ WeightedOf(cls[2]) # Infinity
    /\ WeightedOf(cls[2]) > WeightedOf(cls[1])
    /\ cls[2].int8Score >= cls[1].int8Score
    /\ cls[1].deviceClass = "high-end"
    /\ cls[2].deviceClass = "flagship"

\* C4: in every DeviceSpecs returned, isFlagship holds exactly when cpuCores >= 4,
\* ramGB >= 6, storageGB >= 64 and gpuAvailable, and recommendedPlan is 'free'
\* exactly when isFlagship; 8 cores, 16 GB RAM, 256 GB storage and a GPU give
\* isFlagship and 'free'.
C4_FlagshipCriteria ==
    det.status = "returned" =>
        /\ det.isFlagship <=> (/\ det.cpuCores >= 4
                               /\ det.ramGB >= 6
                               /\ det.storageGB >= 64 * GBUnit
                               /\ det.gpuAvailable)
        /\ (det.recommendedPlan = "free") <=> det.isFlagship
        /\ (/\ det.cpuCores = 8
            /\ det.ramGB = 16
            /\ det.storageGB = 256 * GBUnit
            /\ det.gpuAvailable)
              => (det.isFlagship /\ det.recommendedPlan = "free")

\* the device of the example has been detected
C4_Witness ==
    /\ det.status = "returned"
    /\ det.cpuCores = 8
    /\ det.ramGB = 16
    /\ det.storageGB = 256 * GBUnit
    /\ det.gpuAvailable
    /\ det.isFlagship

\* C5: the plan recommended is 'free' for a flagship device, else 'compute' when
\* cpuCores >= 4 and ramGB >= 4, else 'premium'; a device that is not flagship
\* and has fewer than 4 cores or less than 4 GB RAM gets 'premium'.
C5_PlanRule ==
    det.status = "returned" =>
        /\ det.recommendedPlan \in {"free", "compute", "premium"}
        /\ det.isFlagship => det.recommendedPlan = "free"
        /\ (~det.isFlagship /\ det.cpuCores >= 4 /\ det.ramGB >= 4)
              => det.recommendedPlan = "compute"
        /\ (~det.isFlagship /\ (det.cpuCores < 4 \/ det.ramGB < 4))
              => det.recommendedPlan = "premium"

\* a device with 4 or more cores and less than 4 GB RAM has been detected
C5_Witness ==
    /\ det.status = "returned"
    /\ ~det.isFlagship
    /\ det.cpuCores >= 4
    /\ det.ramGB < 4
    /\ det.recommendedPlan = "premium"

\* C6: detectDeviceCapabilities never raises: whatever platform signals are
\* absent or throw, it returns a DeviceSpecs with cpuCores = 2 when
\* hardwareConcurrency is absent, the platform heuristic for ramGB when
\* deviceMemory is absent, and storageGB = 64 when the storage-quota API is
\* absent or throws.
C6_NeverRaises ==
    det.status # "idle" =>
        /\ det.status = "returned"
        /\ det.type \in {"mobile", "desktop", "tablet"}
        /\ nav.hardwareConcurrency = Undefined => det.cpuCores = 2
        /\ nav.deviceMemory = Undefined => det.ramGB \in {2, 4, 6, 8, 16}
        /\ nav.storage.api \in {"absent", "rejects"} => det.storageGB = 64 * GBUnit

\* C1: the overallScore returned is round(int8Score*0.5 + fp16Score*0.3 +
\* fp32Score*0.2) of the three scores returned, and aiScore equals overallScore.
C1_OverallScore ==
    pc = "done" =>
        LET w10 == 5 * result.int8Score + 3 * result.fp16Score + 2 * result.fp32Score
            anyInfinite == Infinity \in {result.int8Score, result.fp16Score,
                                         result.fp32Score}
        IN  /\ result.aiScore = result.overallScore
            /\ anyInfinite => result.overallScore = Infinity
            /\ ~anyInfinite =>
                  /\ result.overallScore # Infinity
                  /\ 10 * result.overallScore - 5 <= w10
                  /\ w10 < 10 * result.overallScore + 5

\* a run has resolved with finite scores whose weighted sum is rounded upwards
C1_Witness ==
    /\ pc = "done"
    /\ Infinity \notin {result.int8Score, result.fp16Score, result.fp32Score}
    /\ (5 * result.int8Score + 3 * result.fp16Score + 2 * result.fp32Score) % 10 >= 5
    /\ result.overallScore > 0

\* C8: runAIBenchmark never rejects, whatever probe or detection fails.
C8_NeverRejects == pc # "rejected"

\* C9: a run that waits for its workers eventually resolves with a result,
\* whichever workers die without posting their message.
C9_EventuallyResolves == (pc = "join") ~> (pc = "done")

RECURSIVE ParseDigits(_)
\* the number a string of decimal digits denotes
ParseDigits(t) ==
    IF t = <<>> THEN 0
    ELSE 10 * ParseDigits(SubSeq(t, 1, Len(t) - 1))
         + (CHOOSE d \in 0..9 : DigitChars[d + 1] = t[Len(t)])

\* t is a non-negative integer written in decimal without leading zeros
IsDecimal(t) ==
    /\ Len(t) >= 1
    /\ \A i \in 1..Len(t) : IsDigit(t[i])
    /\ Len(t) > 1 => t[1] # "0"

\* C10: formatScore writes a score >= 10000 as the score divided by 1000 with
\* exactly one decimal digit, followed by 'K', and a score < 10000 as its plain
\* decimal string; formatScore(9999) = "9999", formatScore(10000) = "10.0K",
\* formatScore(25500) = "25.5K".
C10_FormatScore ==
    fmt.called =>
        LET t == fmt.text
            n == Len(t)
        IN  /\ fmt.score >= 10000 =>
                  /\ n >= 4
                  /\ t[n] = "K"
                  /\ IsDigit(t[n - 1])
                  /\ t[n - 2] = "."
                  /\ IsDecimal(SubSeq(t, 1, n - 3))
                  /\ LET tenths == 10 * ParseDigits(SubSeq(t, 1, n - 3))
                                   + ParseDigits(<<t[n - 1]>>)
                     IN  /\ 100 * tenths - 50 <= fmt.score
                         /\ fmt.score <= 100 * tenths + 50
            /\ fmt.score < 10000 => (IsDecimal(t) /\ ParseDigits(t) = fmt.score)
            /\ fmt.score = 9999 => t = <<"9", "9", "9", "9">>
            /\ fmt.score = 10000 => t = <<"1", "0", ".", "0", "K">>
            /\ fmt.score = 25500 => t = <<"2", "5", ".", "5", "K">>

\* formatScore(10000) has been called
C10_Witness ==
    /\ fmt.called
    /\ fmt.score = 10000
    /\ fmt.text = <<"1", "0", ".", "0", "K">>

----------------------------------------------------------------------------
(* getRecommendation: the plan *)

\* the plan the specification gives each device class
PlanOfClass(c) == CASE c = "flagship"    -> "free"
                    [] c = "high-end"    -> "compute"
                    [] c = "mid-range"   -> "compute"
                    [] c = "entry-level" -> "premium"

\* C11: the plan getRecommendation returns depends on result.deviceClass
\* alone: flagship gives free, high-end and mid-range give compute,
\* entry-level gives premium; two results of the same class get the same plan
\* whatever their scores, missing int8Score or fp16Score included; and a call
\* changes nothing but the value it returns.
C11_PlanByClass ==
    /\ [](/\ \A i \in 1..Len(rec) :
               rec[i].returned.plan = PlanOfClass(rec[i].result.deviceClass)
          /\ \A i, j \in 1..Len(rec) :
               rec[i].result.deviceClass = rec[j].result.deviceClass
                   => rec[i].returned.plan = rec[j].returned.plan)
    /\ [][rec' # rec => UNCHANGED notRec]_vars

\* two high-end results, one without an int8Score and one with a good one,
\* have both been given the compute plan
C11_Witness ==
    /\ Len(rec) = 2
    /\ rec[1].result.deviceClass = "high-end"
    /\ rec[2].result.deviceClass = "high-end"
    /\ rec[1].result.int8Score = Undefined
    /\ rec[2].result.int8Score = 4500
    /\ rec[1].returned.plan = "compute"
    /\ rec[2].returned.plan = "compute"
    /\ rec[1].returned.message # rec[2].returned.message

----------------------------------------------------------------------------
(* The scores of a BenchmarkResult *)

\* the seven scores of the result
ScoresOf(r) == {r.int8Score, r.fp16Score, r.fp32Score, r.overallScore,
                r.singleCoreScore, r.multiCoreScore, r.aiScore}

\* C12: every score of the BenchmarkResult a run resolves with is a finite
\* integer >= 0, whatever durations the probes measured, 0 ms included.
C12_FiniteScores ==
    pc = "done" => \A x \in ScoresOf(result) : x \in Nat /\ IsFinite(x)

----------------------------------------------------------------------------
(* saveBenchmarkResult: the attempts *)

\* C13: a call of saveBenchmarkResult issues exactly one POST: an attempt that
\* failed (network failure or a response outside 2xx) is not retried and is
\* followed by the write to local storage, and an attempt answered with 2xx
\* is followed by no write to local storage.
C13_OnePost ==
    /\ save.status = "idle" => requests = <<>> /\ localStorage = <<>>
    /\ save.status = "returned" =>
          /\ Len(requests) = 1
          /\ requests[1].method = "POST"
          /\ requests[1].body = JSONStringify(save.result)
          /\ (save.outcome < 200 \/ save.outcome > 299) =>
                DOMAIN localStorage = {"wolf_benchmark"}
          /\ (200 <= save.outcome /\ save.outcome <= 299) =>
                localStorage = <<>>

\* a call whose POST was answered with HTTP 204 has returned: one request was
\* issued and local storage is empty
C13_Witness ==
    /\ save.status = "returned"
    /\ save.outcome = 204
    /\ Len(requests) = 1
    /\ localStorage = <<>>

----------------------------------------------------------------------------
(* testMultiCore: the workers *)

IsRoundOf(m, x, n, d) ==
    IF x = Infinity THEN m = Infinity
    ELSE /\ m \in Nat
         /\ 2 * d * m - d <= 2 * x * n
         /\ 2 * x * n < 2 * d * m + d

\* C15 as claimed: when creating the workers fails, the multiCoreScore of the
\* result is round(singleCoreScore * cores * 0.8) of the singleCoreScore and
\* the deviceInfo.cores of that same result.
C15_FallbackFromReported ==
    (pc = "done" /\ run.multiPath = "fallback") =>
        IsRoundOf(result.multiCoreScore, result.singleCoreScore,
                  8 * result.deviceInfo.cores, 10)

\* C15, amended: when creating the workers fails, the multiCoreScore of the
\* result is round(s * cores * 0.8), where cores is the deviceInfo.cores of
\* the result and s is the score of a single-core probe that the fallback
\* runs anew; s need not be the singleCoreScore of the result.
C15_FallbackFromFreshProbe ==
    (pc = "done" /\ run.multiPath = "fallback") =>
        /\ run.fallbackSingleCore # Undefined
        /\ IsRoundOf(result.multiCoreScore, run.fallbackSingleCore,
                     8 * result.deviceInfo.cores, 10)

\* a run on two cores has resolved from the fallback, whose probe measured
\* another score than the single-core probe of the run
C15_Witness ==
    /\ pc = "done"
    /\ run.multiPath = "fallback"
    /\ result.deviceInfo.cores = 2
    /\ IsFinite(run.fallbackSingleCore)
    /\ IsFinite(result.singleCoreScore)
    /\ run.fallbackSingleCore # result.singleCoreScore

----------------------------------------------------------------------------
(* testFP16Quantization: the fallbacks *)

\* C16: the FP16 probe never raises: without WebGL it returns round(0.7 * s),
\* when the shader probe throws it returns round(0.75 * s), s being the score
\* of an INT8 probe; in both cases runAIBenchmark goes on to the FP32 probe.
C16_FP16Fallback ==
    /\ [](/\ run.fp16Path \in {"no-webgl", "throws"} =>
               /\ run.fallbackInt8 # Undefined
               /\ pc \in {"fp32", "single", "multi", "join", "finish", "done"}
          /\ run.fp16Path = "no-webgl" =>
               IsRoundOf(run.fp16Score, run.fallbackInt8, 7, 10)
          /\ run.fp16Path = "throws" =>
               IsRoundOf(run.fp16Score, run.fallbackInt8, 75, 100))
    /\ [][pc = "fp16" => pc' = "fp32"]_vars

\* the shader probe threw, the fallback measured a finite score, and the FP32
\* probe has completed after it
C16_Witness ==
    /\ run.fp16Path = "throws"
    /\ run.fallbackInt8 > 0
    /\ run.fp16Score > 0
    /\ Len(probes) >= 3
    /\ probes[3] = "fp32"

----------------------------------------------------------------------------
(* runAIBenchmark: the order of the probes *)

\* the order in which runAIBenchmark awaits its probes
ProbeOrder == <<"int8", "fp16", "fp32", "single", "multi">>

\* the number of probes that have completed when the run stands at p
CompletedAt(p) ==
    CASE p \in {"idle", "rejected", "int8"} -> {0}
      [] p = "fp16"   -> {1}
      [] p = "fp32"   -> {2}
      [] p = "single" -> {3}
      [] p \in {"multi", "join"} -> {4}
      [] p \in {"finish", "done"} -> {5}

\* C17: the probes never overlap and run in a fixed order: the INT8 probe
\* completes before the FP16 probe starts, FP16 before FP32, FP32 before the
\* single-core probe, and the single-core probe before the first worker of
\* the multi-core probe is created.
C17_ProbeOrder ==
    /\ Len(probes) <= Len(ProbeOrder)
    /\ probes = SubSeq(ProbeOrder, 1, Len(probes))
    /\ Len(probes) \in CompletedAt(pc)
    /\ workers # <<>> => Len(probes) >= 4

\* every probe of a run with workers has completed
C17_Witness ==
    /\ pc = "done"
    /\ probes = ProbeOrder
    /\ run.multiPath = "workers"
    /\ Len(workers) >= 2

----------------------------------------------------------------------------
(* getDeviceType and estimateStorage *)

\* the tablet pattern: tablet, ipad, playbook, silk, or android with no mobi
\* after it; whatever the case
LooksTablet(userAgent) ==
    LET lower == toLowerCase(userAgent)
    IN  \/ \E word \in {<<"t", "a", "b", "l", "e", "t">>, <<"i", "p", "a", "d">>, <<"p", "l", "a", "y", "b", "o", "o", "k">>, <<"s", "i", "l", "k">>} :
              includes(lower, word)
        \/ \E i \in 1..Len(lower) :
              /\ OccursAt(lower, <<"a", "n", "d", "r", "o", "i", "d">>, i)
              /\ \A j \in (i + 7)..Len(lower) : ~OccursAt(lower, <<"m", "o", "b", "i">>, j)

\* the mobile pattern, whatever the case
LooksMobile(userAgent) ==
    LET lower == toLowerCase(userAgent)
    IN  \E word \in {<<"m", "o", "b", "i", "l", "e">>, <<"i", "p", "h", "o", "n", "e">>, <<"i", "p", "o", "d">>, <<"b", "l", "a", "c", "k", "b", "e", "r", "r", "y">>,
                     <<"o", "p", "e", "r", "a", " ", "m", "i", "n", "i">>, <<"i", "e", "m", "o", "b", "i", "l", "e">>, <<"w", "p", "d", "e", "s", "k", "t", "o", "p">>} :
            includes(lower, word)

\* C18: the device type is decided from the user agent with the tablet
\* pattern tried before the mobile pattern: a user agent that matches both is
\* a tablet, one that matches the mobile pattern only is mobile, one that
\* matches neither is a desktop; exactly one of the three is returned.
C18_DeviceType ==
    det.status = "returned" =>
        LET tablet == LooksTablet(nav.userAgent)
            mobile == LooksMobile(nav.userAgent)
        IN  /\ det.type \in {"tablet", "mobile", "desktop"}
            /\ tablet => det.type = "tablet"
            /\ (mobile /\ ~tablet) => det.type = "mobile"
            /\ (~mobile /\ ~tablet) => det.type = "desktop"

\* a user agent that matches both patterns has been classified as a tablet
C18_Witness ==
    /\ det.status = "returned"
    /\ LooksTablet(nav.userAgent)
    /\ LooksMobile(nav.userAgent)
    /\ det.type = "tablet"

\* C19: the storageGB returned is >= 0: it is max(quota - usage, 0), in GB,
\* when the storage API answers, and 64 when the API is absent or its query
\* throws; a usage above the quota gives 0.
C19_StorageNonNegative ==
    det.status = "returned" =>
        LET quota == IF nav.storage.quota = Undefined THEN 0 ELSE nav.storage.quota
            usage == IF nav.storage.usage = Undefined THEN 0 ELSE nav.storage.usage
        IN  /\ det.storageGB >= 0
            /\ nav.storage.api \in {"absent", "rejects"} =>
                  det.storageGB = 64 * GBUnit
            /\ (nav.storage.api = "answers" /\ usage > quota) => det.storageGB = 0
            /\ (nav.storage.api = "answers" /\ usage <= quota) =>
                  det.storageGB = quota - usage

\* the storage API has answered with a usage above the quota, and 0 was returned
C19_Witness ==
    /\ det.status = "returned"
    /\ nav.storage.api = "answers"
    /\ nav.storage.quota > 0
    /\ nav.storage.usage > nav.storage.quota
    /\ det.storageGB = 0

----------------------------------------------------------------------------
(* The beta programme *)

\* the rows of the users table that are marked as beta testers
BetaUsers == {i \in 1..Len(users) : users[i].beta_user}

\* C20: only the first 100 users are beta testers: after any interleaving of
\* calls of handleRegistration made at the same time, at most 100 rows of
\* users have beta_user = true.
C20_AtMostHundredBeta == Cardinality(BetaUsers) <= BetaLimit

----------------------------------------------------------------------------
(* testMultiCore: the cleanup *)

\* C28: when testMultiCore has returned, on the normal path and on the
\* fallback path alike, every worker it created has been terminated and the
\* blob URL it created has been revoked.
C28_CleanupOnReturn ==
    pc \in {"finish", "done"} =>
        /\ \A i \in 1..Len(workers) : workers[i] = "terminated"
        /\ blobURL # "created"

----------------------------------------------------------------------------
(* Sign-in with Authentik: what crosses the redirect *)

\* the requests sent to one endpoint
RequestsTo(endpoint) ==
    {i \in 1..Len(authRequests) : authRequests[i].endpoint = endpoint}

\* C21: the code_verifier that handleAuthentikCallback sends to the token
\* endpoint is the verifier generatePKCE made for that sign-in, and the
\* code_challenge of the authorize redirect is the SHA-256 digest of that
\* same verifier.
C21_PKCERoundTrip ==
    /\ sso.pc # "form" => authorize.code_challenge = sha256(sso.generated.verifier)
    /\ \A i \in RequestsTo("token") :
          authRequests[i].code_verifier = sso.generated.verifier

\* C24: the phone number and the referral code the user entered before
\* pressing sign-in are the phone_number and referral_code of the SSO
\* registration request made when the callback is handled.
C24_PendingDetailsSent ==
    \A i \in RequestsTo("sso") :
        /\ authRequests[i].phone_number = sso.entered.phoneNumber
        /\ authRequests[i].referral_code = sso.entered.referralCode

----------------------------------------------------------------------------
(* Referral rewards *)

\* the users that were referred by r
ReferredBy(r) == {u \in 1..Len(users) : users[u].referred_by = r}

\* the rewards of one type that r has for the referred user u
RewardsFor(r, u, type) ==
    {i \in 1..Len(rewards) : /\ rewards[i].user_id = r
                             /\ rewards[i].referred_user_id = u
                             /\ rewards[i].reward_type = type}

\* the rewards of one type that r has
RewardsOf(r, type) ==
    {i \in 1..Len(rewards) : rewards[i].user_id = r /\ rewards[i].reward_type = type}

\* C27: after any sequence of user inserts, every referrer has exactly one
\* free_month reward per referred user and a referral_count equal to the
\* number of users referred by it, and has a free_app reward if and only if
\* that count is >= 10, and then exactly one.
C27_ReferralRewards ==
    \A r \in 1..Len(users) :
        /\ \A u \in ReferredBy(r) : Cardinality(RewardsFor(r, u, "free_month")) = 1
        /\ Cardinality(RewardsOf(r, "free_month")) = Cardinality(ReferredBy(r))
        /\ users[r].referral_count = Cardinality(ReferredBy(r))
        /\ Cardinality(RewardsOf(r, "free_app")) =
              (IF users[r].referral_count >= FreeAppReferrals THEN 1 ELSE 0)

\* the e-mail codes of the user of wizard c that carry the PIN submitted last
SubmittedCodes(c) ==
    {i \in 1..Len(codes) : /\ codes[i].user_id = reg[c].onboardingData.userId
                           /\ codes[i].code_type = "email"
                           /\ codes[i].code = reg[c].submitted.pin}

\* handleEmailVerification runs in wizard c for a PIN that was submitted
\* after the expires_at of its code
ExpiredSubmission(c) ==
    /\ reg[c].call = "verify-email"
    /\ reg[c].pc # "idle"
    /\ SubmittedCodes(c) # {}
    /\ \A i \in SubmittedCodes(c) : codes[i].expires_at < reg[c].submitted.at

\* C22: an e-mail code expires 15 minutes after the PIN is drawn, and no step
\* of handleEmailVerification for a PIN submitted after the expires_at of its
\* code sets verified_at on the code or email_verified on the user or leaves
\* the e-mail verification step; when the handler returns, an error is shown
C22_ExpiredPinRejected ==
    [][\A c \in Clients :
         /\ reg[c].pc = "insert" /\ reg'[c].pc = "code" =>
                reg'[c].local.expiresAt = now + EmailCodeMinutes
         /\ reg[c].pc = "code" /\ reg'[c].pc = "send" =>
                /\ Len(codes') = Len(codes) + 1
                /\ codes'[Len(codes')].code = reg[c].local.pin
                /\ codes'[Len(codes')].expires_at = reg[c].local.expiresAt
         /\ ExpiredSubmission(c) =>
                /\ \A i \in SubmittedCodes(c) : codes'[i].verified_at = NoTime
                /\ ~users'[reg[c].onboardingData.userId].email_verified
                /\ reg'[c].currentStep = "email-verification"
                /\ reg'[c].pc = "idle" => reg'[c].error # "none"]_vars

\* a PIN that was right but submitted after its expiry has been turned down
C22_Witness ==
    \E c \in Clients, i \in 1..Len(codes) :
        /\ reg[c].pc = "idle"
        /\ reg[c].call = "verify-email"
        /\ reg[c].error = "Verification code has expired"
        /\ reg[c].currentStep = "email-verification"
        /\ i \in SubmittedCodes(c)
        /\ codes[i].expires_at < reg[c].submitted.at
        /\ codes[i].verified_at = NoTime

\* C23: a call of 'Resend verification code' returns with no error and with
\* the wizard on the e-mail verification step, having sent to the user's
\* address the PIN of an unverified e-mail code of the same user
C23_ResendIssuesCode ==
    [][\A c \in Clients :
         (reg[c].call = "resend" /\ reg[c].pc # "idle" /\ reg'[c].pc = "idle") =>
             /\ reg'[c].error = "none"
             /\ reg'[c].currentStep = "email-verification"
             /\ Len(outbox') = Len(outbox) + 1
             /\ outbox'[Len(outbox')].email = reg[c].onboardingData.email
             /\ \E i \in 1..Len(codes') :
                    /\ codes'[i].user_id = reg[c].onboardingData.userId
                    /\ codes'[i].code_type = "email"
                    /\ codes'[i].verified_at = NoTime
                    /\ codes'[i].code = outbox'[Len(outbox')].pin]_vars

\* C25: a wizard on the RCS step or later has email_verified stored for its
\* user, one on the subscription step or later has rcs_verified stored, and
\* one on the last step has a row in user_subscriptions
C25_StepsPersisted ==
    \A c \in Clients :
        LET userId == reg[c].onboardingData.userId
            index == currentStepIndex(reg[c].currentStep)
        IN  /\ index >= currentStepIndex("rcs-verification") =>
                   users[userId].email_verified
            /\ index >= currentStepIndex("subscription") =>
                   users[userId].rcs_verified
            /\ index = currentStepIndex("complete") =>
                   \E i \in 1..Len(subscriptions) : subscriptions[i].user_id = userId

\* C26: currentStep changes only to the step that follows it; it changes
\* only when a handler returns without an error, and a handler that throws
\* returns with the step it started on, an error message and loading cleared
C26_StepOrder ==
    [][\A c \in Clients :
         LET before == currentStepIndex(reg[c].currentStep)
             after == currentStepIndex(reg'[c].currentStep)
             returns == reg[c].pc # "idle" /\ reg'[c].pc = "idle"
         IN  /\ after # before => after = before + 1 /\ returns
             /\ returns => ~reg'[c].loading
             /\ returns /\ reg[c].call # "resend" =>
                    (after = before) = (reg'[c].error # "none")
             /\ returns /\ reg'[c].error # "none" => after = before]_vars

\* a wizard has gone through all its steps
C26_Witness ==
    \E c \in Clients :
        /\ reg[c].currentStep = "complete"
        /\ reg[c].pc = "idle"
        /\ ~reg[c].loading
        /\ Len(outbox) = 1
====
